---- MODULE Spec2Model ----
(***************************************************************************)
(* Voice interaction pipeline of Indic-Copilot: the useVoice React hook    *)
(* (client/src/hooks/use-voice.ts).  The file holds two variants of the    *)
(* hook: the record-and-submit hook (energy detector + MediaRecorder +     *)
(* remote transcription + three-tier synthesis, lines 1-924) and the       *)
(* continuous-recognizer hook (model VAD + SpeechRecognition + platform    *)
(* synthesis, lines 926-1374).  The variable `hook` says which variant is  *)
(* mounted; refs that both variants declare share one variable.            *)
(*                                                                         *)
(* Scheduling is the browser event loop: every action below is one task    *)
(* (an API call, a promise continuation, a timer or an event callback)     *)
(* run to completion.                                                      *)
(***************************************************************************)
EXTENDS Integers, Sequences, FiniteSets, TLC

\* ---------------------------------------------------------------- bounds
\* A run is bounded by the number of operations that allocate something or
\* are counted: device acquisitions (startListening calls that pass the
\* guard, model-VAD loads), MediaRecorder / SpeechRecognition instances,
\* speak() calls, stopSpeaking() calls and the unmount, MaxOps of them in all.
MaxOps == 3

\* The continuous-recognizer hook: final fragments per SpeechRecognition
\* instance and onAutoSend emissions.
MaxFinals == 1
MaxEmit == 1

\* The record-and-submit hook: audio events one SSE response may carry.
MaxChunks == 1

\* Changes of the hook's `language` option in one run.
MaxLang == 1

\* The /api/tts-stream handler: messages the upstream socket delivers during
\* one request.
MaxMsgs == 2

\* The Builder page: calls of sendMessage in one run.
MaxSends == 3

Acqs == 1..MaxOps
Recs == 1..MaxOps
Calls == 1..MaxOps
Sends == 1..MaxSends

\* --------------------------------------------------- program constants
\* Detector thresholds; the clock ticks once per MIN_SPEECH_DURATION_MS.
SILENCE_DURATION_MS == 1200
MIN_SPEECH_DURATION_MS == 300
TickMs == MIN_SPEECH_DURATION_MS
SilenceTicks == SILENCE_DURATION_MS \div TickMs
MinSpeechTicks == MIN_SPEECH_DURATION_MS \div TickMs

\* `continuous = true` is the default of the hook option; no caller overrides it.
continuous == TRUE

\* ----------------------------------------------------------------- text
\* A string is a sequence of characters; "a" stands for any non-blank one.
Blank == " "

RECURSIVE TrimStart(_)
TrimStart(s) == IF s # <<>> /\ Head(s) = Blank THEN TrimStart(Tail(s)) ELSE s

RECURSIVE TrimEnd(_)
TrimEnd(s) ==
  IF s # <<>> /\ s[Len(s)] = Blank THEN TrimEnd(SubSeq(s, 1, Len(s) - 1)) ELSE s

\* String.prototype.trim
Trim(s) == TrimEnd(TrimStart(s))

\* The value null where a string is expected (sendAudioToSTT on failure).
Null == <<"null">>

\* JavaScript truthiness of a string or null
Truthy(s) == s # <<>> /\ s # Null

\* Transcripts the remote transcription service may return.
Transcripts == { <<>>, <<" ">>, <<" ", "a", " ">> }

\* Fragments the platform recognizer may deliver.
Fragments == { <<" ">>, <<"a">> }

\* Values of the hook's `language` option.
Langs == {"hi-IN", "en-IN"}

\* Texts handed to speak().
SpeakTexts == { <<>>, <<" ">>, <<"a">> }

\* ------------------------------------------------------------ variables
VARIABLES
  hook,                \* "record" or "continuous": the mounted variant
  hasSynth,            \* window.speechSynthesis exists
  mounted,             \* the component that uses the hook is mounted
  \* React state
  isListening, isSpeaking, transcript, vadReady, userSpeaking,
  \* refs of the listening path
  isActive, accumulatedText, hasSpeech,
  energyMonitorPaused, isSpeechActive,
  \* the three time spans below are read only while isSpeechActive is set;
  \* they are 0 otherwise
  sinceSpeechStart,    \* Date.now() - speechStartTimeRef, in ticks, capped
  sinceLastSpeech,     \* Date.now() - lastSpeechTimeRef, in ticks, capped
  speechSpan,          \* lastSpeechTimeRef - speechStartTimeRef, in ticks, capped
  mediaStream, analyser, analyserCtx, animFrame,
  mediaRecorder, isRecording, audioChunks,
  \* the browser side of the listening path
  acq,                 \* getUserMedia requests
  liveStreams,         \* streams whose tracks have not been stopped
  closedCtx,           \* analyser contexts that were closed
  loops,               \* monitor loops with a pending animation frame
  recState,            \* MediaRecorder / onstop continuation per recorder
  recStream,           \* stream each MediaRecorder was constructed on
  timerText,           \* argument captured by the 800 ms auto-send timer
  \* refs of the playback path
  speakingGuard, streamAbort, sarvamAudio,
  \* the speak() continuations and the browser side of playback
  pc, audio, utt, poll, doneTimers,
  \* refs and browser side of the continuous-recognizer hook
  speechEndTimer, silenceTimer,   \* the tracked timers (pending or not)
  restartTimer,        \* the 300 ms restart timer of handleSpeechEnd
  vadRef, vadState, vadSpeech,    \* MicVAD instances, one per load
  recognitionRef,
  recog,               \* SpeechRecognition instances
  recFinal,            \* concatenated final results of each instance
  recLang,             \* `lang` of each SpeechRecognition instance
  language,            \* the `language` option, which languageRef follows
  langChanges,         \* number of changes of the option so far
  langTimers,          \* pending 200 ms timers of the language effect
  finalsSince,         \* final fragments handled since the last emission or start
  \* observation of the callback hooks and of the API calls
  autoSent,            \* onAutoSend invocations, in order
  lastResult,          \* argument of the most recent onResult invocation
  accOrigin,           \* recorder whose transcript accumulatedText holds
  onSpeakEndCalls,     \* number of onSpeakEnd invocations
  resumeCount,         \* resumeAfterSpeaking runs per speak() continuation
  stopped,             \* speak() calls that were in progress at a stopSpeaking()
  stopCalls,           \* number of stopSpeaking() calls
  blankCalls,          \* number of speak() calls with a blank text
  lastOp,              \* the API call or callback that ran last
  \* one request of the server's /api/tts-stream handler
  wsState,             \* the upstream WebSocket
  wsCleanedUp,
  timeoutPending,      \* the 30 s timer is set and was not cleared
  reqClosed,           \* the request's "close" event was emitted
  sse,                 \* events written to the response before its end
  resEnded,            \* res.writableEnded
  endCalls,            \* number of res.end() calls
  lateWrites,          \* number of res.write() calls after res.end()
  msgs,                \* number of upstream messages delivered
  \* the Builder page
  isStreaming,         \* React state of the page
  conversationId,      \* the page's prop; 0 is null
  sendMessageRef,      \* what the closure in sendMessageRef.current captured
  fate,                \* what became of each sendMessage call
  sentBy,              \* who called it
  speakRequests        \* number of voice.speak() calls of the page

uiVars == <<isListening, isSpeaking, transcript, vadReady, userSpeaking>>
listenRefs == <<isActive, accumulatedText, hasSpeech, energyMonitorPaused,
                isSpeechActive, sinceSpeechStart, sinceLastSpeech, speechSpan, mediaStream,
                analyser, analyserCtx, animFrame, mediaRecorder, isRecording,
                audioChunks>>
timing == <<sinceSpeechStart, sinceLastSpeech, speechSpan>>
listenEnv == <<acq, liveStreams, closedCtx, loops, recState, recStream, timerText>>
speakRefs == <<speakingGuard, streamAbort, sarvamAudio>>
speakEnv == <<pc, audio, utt, poll, doneTimers>>
observed == <<autoSent, lastResult, accOrigin, onSpeakEndCalls, resumeCount, stopped,
              stopCalls, blankCalls, lastOp>>
platform == <<hook, hasSynth>>
\* What only the unmount cleanup changes.
langVars == <<language, langChanges, langTimers>>
\* The server's handler and the page that uses the hook.
srvVars == <<wsState, wsCleanedUp, timeoutPending, reqClosed, sse, resEnded, endCalls,
             lateWrites, msgs>>
pageVars == <<isStreaming, conversationId, sendMessageRef, fate, sentBy, speakRequests>>
outside == <<srvVars, pageVars>>
config == <<platform, mounted, langVars, outside>>
contOnly == <<speechEndTimer, silenceTimer, restartTimer, vadRef, vadState,
              vadSpeech, recognitionRef, recog, recFinal, recLang, finalsSince>>

vars == <<config, contOnly, uiVars, listenRefs, listenEnv, speakRefs, speakEnv, observed>>

\* The state of the hook.
hookVars == <<platform, mounted, langVars, contOnly, uiVars, listenRefs, listenEnv,
              speakRefs, speakEnv, observed>>

\* Everything a caller of the hook can observe or that the hook keeps: the
\* whole state except the record of which call ran last.
sessionState == <<config, contOnly, uiVars, listenRefs, listenEnv, speakRefs, speakEnv,
                  autoSent, lastResult, accOrigin, onSpeakEndCalls, resumeCount, stopped,
                  stopCalls, blankCalls>>

\* ----------------------------------------------------------------- Init
Init ==
  /\ hook \in {"record", "continuous"}
  /\ hasSynth \in BOOLEAN
  /\ mounted = TRUE
  /\ speechEndTimer = FALSE /\ silenceTimer = FALSE /\ restartTimer = FALSE
  /\ vadRef = 0
  /\ vadState = [a \in Acqs |-> "none"]
  /\ vadSpeech = [a \in Acqs |-> FALSE]
  /\ recognitionRef = 0
  /\ recog = [r \in Recs |-> "unused"]
  /\ recFinal = [r \in Recs |-> <<>>]
  /\ recLang = [r \in Recs |-> "none"]
  /\ language = "hi-IN" /\ langChanges = 0 /\ langTimers = 0
  /\ finalsSince = <<>>
  /\ isListening = FALSE /\ isSpeaking = FALSE /\ transcript = <<>>
  /\ vadReady = FALSE /\ userSpeaking = FALSE
  /\ isActive = FALSE /\ accumulatedText = <<>> /\ hasSpeech = FALSE
  /\ energyMonitorPaused = FALSE /\ isSpeechActive = FALSE
  /\ sinceSpeechStart = 0 /\ sinceLastSpeech = 0 /\ speechSpan = 0
  /\ mediaStream = 0 /\ analyser = 0 /\ analyserCtx = 0 /\ animFrame = 0
  /\ mediaRecorder = 0 /\ isRecording = FALSE /\ audioChunks = <<>>
  /\ acq = [a \in Acqs |-> "unused"]
  /\ liveStreams = {} /\ closedCtx = {} /\ loops = {}
  /\ recState = [r \in Recs |-> "unused"]
  /\ recStream = [r \in Recs |-> 0]
  /\ timerText = [r \in Recs |-> <<>>]
  /\ speakingGuard = FALSE /\ streamAbort = 0 /\ sarvamAudio = <<>>
  /\ pc = [c \in Calls |-> "unused"]
  /\ audio = [c \in Calls |-> "none"]
  /\ utt = [c \in Calls |-> "none"]
  /\ poll = [c \in Calls |-> FALSE]
  /\ doneTimers = [c \in Calls |-> 0]
  /\ autoSent = <<>> /\ accOrigin = 0
  /\ lastResult = <<>>
  /\ onSpeakEndCalls = 0
  /\ resumeCount = [c \in Calls |-> 0]
  /\ stopped = {}
  /\ stopCalls = 0
  /\ blankCalls = 0
  /\ lastOp = "mount"
  \* the handler has validated the request, set the headers, constructed the
  \* socket, set the timer and registered its listeners
  /\ wsState = "connecting" /\ wsCleanedUp = FALSE /\ timeoutPending = TRUE
  /\ reqClosed = FALSE /\ sse = <<>> /\ resEnded = FALSE /\ endCalls = 0
  /\ lateWrites = 0 /\ msgs = 0
  \* the page of a new conversation has rendered once and its effects have run
  /\ isStreaming = FALSE
  /\ conversationId = 0
  /\ sendMessageRef = [isStreaming |-> FALSE, conversationId |-> 0]
  /\ fate = [k \in Sends |-> "unused"]
  /\ sentBy = [k \in Sends |-> "none"]
  /\ speakRequests = 0

\* -------------------------------------------------------------- helpers
\* Operations of the run so far that count against MaxOps.
Used ==
  Cardinality({a \in Acqs : acq[a] # "unused"})
  + Cardinality({r \in Recs : recState[r] # "unused" \/ recog[r] # "unused"})
  + Cardinality({c \in Calls : pc[c] # "unused"})
  + stopCalls + blankCalls + (IF mounted THEN 0 ELSE 1)

\* Identifiers a new acquisition, recorder or call may take: none once the
\* run has used its operations.
Room == IF Used < MaxOps THEN MaxOps ELSE 0

\* The lowest identifier of S that f still maps to "unused", 0 if none.
FreeId(f, n) ==
  IF \E i \in 1..n : f[i] = "unused"
  THEN CHOOSE i \in 1..n : f[i] = "unused" /\ \A j \in 1..n : f[j] = "unused" => i <= j
  ELSE 0

Min(a, b) == IF a < b THEN a ELSE b

\* isSpeechActiveRef is cleared: the time spans are read no more.
ResetTiming == sinceSpeechStart' = 0 /\ sinceLastSpeech' = 0 /\ speechSpan' = 0

\* stopRecording: MediaRecorder.stop() on a recorder that is not inactive; the
\* dataavailable and stop events are delivered later.
StopRecordingRec(rs, mr) ==
  IF mr # 0 /\ rs[mr] = "recording" THEN [rs EXCEPT ![mr] = "stopping"] ELSE rs

\* All tracks of a stream ended: a MediaRecorder recording it stops by itself.
TracksEndedRec(rs, st) ==
  [r \in Recs |-> IF rs[r] = "recording" /\ recStream[r] = st /\ st # 0
                  THEN "stopping" ELSE rs[r]]

\* doAutoSend's guard without the trim
AutoSendGuardNoTrim(t) == Truthy(t)

\* doAutoSend's guard: `finalText && finalText.trim()`
AutoSendGuard(t) == Truthy(t) /\ Truthy(Trim(t))

\* ------------------------------------------- record-and-submit: listening
\* startListening without its re-entrancy guard
AlreadyActiveNever == FALSE

\* startListening's re-entrancy guard: `if (isActiveRef.current) return`
AlreadyActive == isActive

\* startListening()
StartListening ==
  /\ hook = "record"
  /\ mounted
  /\ lastOp' = IF isActive THEN "startListeningActive" ELSE "startListening"
  /\ IF AlreadyActive
     THEN UNCHANGED sessionState
     ELSE /\ FreeId(acq, Room) # 0
          /\ isActive' = TRUE
          /\ accumulatedText' = <<>>
          /\ hasSpeech' = FALSE
          /\ isSpeechActive' = FALSE
          /\ energyMonitorPaused' = FALSE
          /\ transcript' = <<>>
          /\ isListening' = TRUE
          /\ vadReady' = FALSE
          /\ acq' = [acq EXCEPT ![FreeId(acq, Room)] = "pending"]
          /\ accOrigin' = 0
          /\ ResetTiming
          /\ UNCHANGED <<config, contOnly, isSpeaking, userSpeaking,
                         mediaStream, analyser, analyserCtx,
                         animFrame, mediaRecorder, isRecording, audioChunks,
                         liveStreams, closedCtx, loops, recState, recStream,
                         timerText, speakRefs, speakEnv, autoSent, lastResult,
                         onSpeakEndCalls, resumeCount, stopped, stopCalls,
                 blankCalls>>

\* an acquisition that never finds its session ended
AbandonedNever == FALSE

\* The check an acquisition makes when it completes:
\* `if (!isActiveRef.current)`
Abandoned == ~isActive

\* getUserMedia resolves: the rest of startListening's try block.
AcquireOk(a) ==
  /\ hook = "record"
  /\ acq[a] = "pending"
  /\ acq' = [acq EXCEPT ![a] = "done"]
  /\ analyserCtx' = a
  /\ analyser' = a
  /\ IF Abandoned
     THEN /\ closedCtx' = closedCtx \cup {a}
          /\ mediaStream' = 0
          /\ UNCHANGED <<liveStreams, loops, animFrame, vadReady>>
     ELSE /\ mediaStream' = a
          /\ liveStreams' = liveStreams \cup {a}
          \* startEnergyMonitor
          /\ loops' = loops \cup {a}
          /\ animFrame' = a
          /\ vadReady' = TRUE
          /\ UNCHANGED closedCtx
  /\ lastOp' = "event"
  /\ UNCHANGED <<config, contOnly, isListening, isSpeaking, transcript, userSpeaking,
                 isActive, accumulatedText, hasSpeech, energyMonitorPaused,
                 isSpeechActive, sinceSpeechStart, sinceLastSpeech, speechSpan,
                 mediaRecorder, isRecording, audioChunks, recState, recStream,
                 timerText, speakRefs, speakEnv, autoSent, lastResult, accOrigin,
                 onSpeakEndCalls, resumeCount, stopped, stopCalls,
                 blankCalls>>

\* getUserMedia rejects: startListening's catch block.
AcquireFail(a) ==
  /\ hook = "record"
  /\ acq[a] = "pending"
  /\ acq' = [acq EXCEPT ![a] = "done"]
  /\ isActive' = FALSE
  /\ isListening' = FALSE
  /\ liveStreams' = liveStreams \ {mediaStream}
  /\ recState' = TracksEndedRec(recState, mediaStream)
  /\ mediaStream' = 0
  /\ lastOp' = "event"
  /\ UNCHANGED <<config, contOnly, isSpeaking, transcript, vadReady, userSpeaking,
                 accumulatedText, hasSpeech, energyMonitorPaused,
                 isSpeechActive, sinceSpeechStart, sinceLastSpeech, speechSpan, analyser,
                 analyserCtx, animFrame, mediaRecorder, isRecording,
                 audioChunks, closedCtx, loops, recStream, timerText,
                 speakRefs, speakEnv, autoSent, lastResult, accOrigin, onSpeakEndCalls,
                 resumeCount, stopped, stopCalls,
                 blankCalls>>

\* Date.now() advances by one tick while an utterance is being timed.
Tick ==
  /\ hook = "record"
  /\ isSpeechActive
  /\ sinceLastSpeech < SilenceTicks \/ sinceSpeechStart < MinSpeechTicks
  /\ sinceLastSpeech' = Min(sinceLastSpeech + 1, SilenceTicks)
  /\ sinceSpeechStart' = Min(sinceSpeechStart + 1, MinSpeechTicks)
  /\ lastOp' = "event"
  /\ UNCHANGED <<config, contOnly, uiVars, isActive, accumulatedText, hasSpeech,
                 energyMonitorPaused, isSpeechActive, speechSpan, mediaStream, analyser,
                 analyserCtx, animFrame, mediaRecorder, isRecording,
                 audioChunks, listenEnv, speakRefs, speakEnv, autoSent, lastResult,
                 accOrigin, onSpeakEndCalls, resumeCount, stopped, stopCalls,
                 blankCalls>>

\* a startRecording that waits for the transcription requests in flight
CanRecordIdle ==
  mediaStream # 0 /\ ~isRecording /\ \A r \in Recs : recState[r] # "stt"

\* startRecording can construct a recorder:
\* `if (!mediaStreamRef.current || isRecordingRef.current) return`
CanRecord == mediaStream # 0 /\ ~isRecording

\* a monitor without its gate
MonitorGatedNever == FALSE

\* monitor's gate: `if (!isActiveRef.current || energyMonitorPausedRef.current)`
MonitorGated == ~isActive \/ energyMonitorPaused

\* One animation frame of the monitor loop started for stream l; `loud` says
\* whether the frame's RMS energy exceeds SPEECH_THRESHOLD.
Frame(l, loud) ==
  /\ hook = "record"
  /\ l \in loops
  /\ animFrame' = l
  /\ IF MonitorGated
     THEN /\ lastOp' = "frameSkipped"
          /\ UNCHANGED <<isSpeechActive, sinceSpeechStart, sinceLastSpeech, speechSpan,
                         userSpeaking, mediaRecorder, isRecording, audioChunks,
                         recState, recStream>>
     ELSE IF loud
     THEN /\ l \in liveStreams /\ l \notin closedCtx
          /\ sinceLastSpeech' = 0
          /\ speechSpan' = IF ~isSpeechActive THEN 0 ELSE sinceSpeechStart
          /\ IF ~isSpeechActive
             THEN /\ isSpeechActive' = TRUE
                  /\ sinceSpeechStart' = 0
                  /\ userSpeaking' = TRUE
                  /\ lastOp' = "speechStart"
                  \* startRecording
                  /\ IF CanRecord
                     THEN /\ FreeId(recState, Room) # 0
                          /\ audioChunks' = <<>>
                          /\ mediaRecorder' = FreeId(recState, Room)
                          /\ recState' = [recState EXCEPT ![FreeId(recState, Room)] = "recording"]
                          /\ recStream' = [recStream EXCEPT ![FreeId(recState, Room)] = mediaStream]
                          /\ isRecording' = TRUE
                     ELSE UNCHANGED <<audioChunks, mediaRecorder, recState,
                                      recStream, isRecording>>
             ELSE /\ lastOp' = "event"
                  /\ UNCHANGED <<isSpeechActive, sinceSpeechStart, userSpeaking,
                                 audioChunks, mediaRecorder, recState,
                                 recStream, isRecording>>
     ELSE IF isSpeechActive /\ sinceLastSpeech >= SilenceTicks
     THEN /\ isSpeechActive' = FALSE
          /\ userSpeaking' = FALSE
          \* handleSpeechEnd and the misfire branch both call stopRecording
          /\ recState' = StopRecordingRec(recState, mediaRecorder)
          /\ isRecording' = FALSE
          /\ lastOp' = IF sinceSpeechStart >= MinSpeechTicks
                       THEN "speechEnd" ELSE "misfire"
          /\ ResetTiming
          /\ UNCHANGED <<mediaRecorder, audioChunks, recStream>>
     ELSE /\ lastOp' = "event"
          /\ UNCHANGED <<isSpeechActive, sinceSpeechStart, sinceLastSpeech, speechSpan,
                         userSpeaking, mediaRecorder, isRecording, audioChunks,
                         recState, recStream>>
  /\ UNCHANGED <<config, contOnly, isListening, isSpeaking, transcript, vadReady,
                 isActive, accumulatedText, hasSpeech, energyMonitorPaused,
                 mediaStream, analyser, analyserCtx, acq, liveStreams,
                 closedCtx, loops, timerText, speakRefs, speakEnv,
                 autoSent, lastResult, accOrigin, onSpeakEndCalls, resumeCount, stopped,
                 stopCalls, blankCalls>>

\* The recorder's dataavailable and stop events (one task): ondataavailable
\* and the part of onstop before the transcription request.
RecorderStopped(r, hasData) ==
  /\ hook = "record"
  /\ recState[r] = "stopping"
  /\ LET chunks == IF hasData THEN Append(audioChunks, r) ELSE audioChunks IN
     /\ audioChunks' = chunks
     /\ IF chunks = <<>>
        THEN /\ recState' = [recState EXCEPT ![r] = "done"]
        ELSE /\ recState' = [recState EXCEPT ![r] = "stt"]
  /\ lastOp' = "event"
  /\ UNCHANGED <<config, contOnly, uiVars, isActive, accumulatedText, hasSpeech,
                 energyMonitorPaused, isSpeechActive, sinceSpeechStart,
                 sinceLastSpeech, speechSpan, mediaStream, analyser, analyserCtx,
                 animFrame, mediaRecorder, isRecording, acq, liveStreams,
                 closedCtx, loops, recStream, timerText, speakRefs, speakEnv,
                 autoSent, lastResult, accOrigin, onSpeakEndCalls, resumeCount, stopped,
                 stopCalls, blankCalls>>

\* an onResult callback that is never invoked
OnResultSkipped(last, t) == last

\* `onResultRef.current?.(t)`
OnResult(last, t) == t

\* an onstop that takes every result of sendAudioToSTT for a transcript
TranscribedAlways(res) == TRUE

\* onstop's test of the result of sendAudioToSTT: `if (transcript)`
Transcribed(res) == Truthy(res)

\* sendAudioToSTT returns res (a transcript, or null on any failure): the
\* rest of onstop.
SttResponse(r, res) ==
  /\ hook = "record"
  /\ recState[r] = "stt"
  /\ audioChunks' = <<>>
  /\ IF Transcribed(res)
     THEN /\ accumulatedText' = res
          /\ hasSpeech' = TRUE
          /\ transcript' = res
          /\ accOrigin' = r
          /\ lastResult' = OnResult(lastResult, res)
          /\ IF continuous /\ isActive
             THEN /\ recState' = [recState EXCEPT ![r] = "timer"]
                  /\ timerText' = [timerText EXCEPT ![r] = res]
             ELSE /\ recState' = [recState EXCEPT ![r] = "done"]
                  /\ UNCHANGED timerText
          /\ lastOp' = "event"
     ELSE /\ recState' = [recState EXCEPT ![r] = "done"]
          /\ lastOp' = IF res = Null THEN "sttFailed" ELSE "event"
          /\ UNCHANGED <<accumulatedText, hasSpeech, transcript, accOrigin, lastResult,
                         timerText>>
  /\ UNCHANGED <<config, contOnly, isListening, isSpeaking, vadReady, userSpeaking,
                 isActive, energyMonitorPaused, isSpeechActive,
                 sinceSpeechStart, sinceLastSpeech, speechSpan, mediaStream, analyser,
                 analyserCtx, animFrame, mediaRecorder, isRecording, acq,
                 liveStreams, closedCtx, loops, recStream, speakRefs,
                 speakEnv, autoSent, onSpeakEndCalls, resumeCount, stopped,
                 stopCalls, blankCalls>>

\* The 800 ms timer set by onstop fires: doAutoSend(transcript).
AutoSendTimer(r) ==
  /\ hook = "record"
  /\ recState[r] = "timer"
  /\ recState' = [recState EXCEPT ![r] = "done"]
  /\ timerText' = [timerText EXCEPT ![r] = <<>>]
  /\ IF AutoSendGuard(timerText[r])
     THEN /\ accumulatedText' = <<>>
          /\ hasSpeech' = FALSE
          /\ transcript' = <<>>
          /\ userSpeaking' = FALSE
          /\ autoSent' = Append(autoSent, [text |-> Trim(timerText[r]),
                                           rec |-> r, via |-> "timer"])
          /\ accOrigin' = 0
     ELSE UNCHANGED <<accumulatedText, hasSpeech, transcript, userSpeaking,
                      autoSent, accOrigin>>
  /\ lastOp' = "event"
  /\ UNCHANGED <<config, contOnly, isListening, isSpeaking, vadReady, isActive,
                 energyMonitorPaused, isSpeechActive, sinceSpeechStart,
                 sinceLastSpeech, speechSpan, mediaStream, analyser, analyserCtx,
                 animFrame, mediaRecorder, isRecording, audioChunks, acq,
                 liveStreams, closedCtx, loops, recStream,
                 lastResult, speakRefs, speakEnv, onSpeakEndCalls, resumeCount, stopped,
                 stopCalls, blankCalls>>

\* stopListening's flush without the reset of the buffer
BufferAfterFlushKept(t) == t

\* stopListening's flush: `accumulatedTextRef.current = ""` once the text
\* has been read
BufferAfterFlush(t) == <<>>

\* stopListening()
StopListening ==
  /\ hook = "record"
  /\ mounted
  /\ isActive' = FALSE
  \* clearTimers: this variant never sets the three timers it clears
  /\ recState' = StopRecordingRec(recState, mediaRecorder)
  /\ isRecording' = FALSE
  \* stopEnergyMonitor
  /\ loops' = loops \ {animFrame}
  /\ animFrame' = 0
  /\ IF analyserCtx # 0 /\ analyserCtx \notin closedCtx
     THEN closedCtx' = closedCtx \cup {analyserCtx} /\ analyserCtx' = 0
     ELSE UNCHANGED <<closedCtx, analyserCtx>>
  /\ analyser' = 0
  /\ liveStreams' = liveStreams \ {mediaStream}
  /\ mediaStream' = 0
  /\ isSpeechActive' = FALSE
  /\ energyMonitorPaused' = FALSE
  /\ accumulatedText' = BufferAfterFlush(accumulatedText)
  /\ hasSpeech' = FALSE
  /\ isListening' = FALSE
  /\ userSpeaking' = FALSE
  /\ vadReady' = FALSE
  /\ IF Truthy(Trim(accumulatedText))
     THEN autoSent' = Append(autoSent, [text |-> Trim(accumulatedText),
                                        rec |-> accOrigin, via |-> "stop"])
     ELSE UNCHANGED autoSent
  /\ accOrigin' = 0
  /\ lastOp' = "stopListening"
  /\ ResetTiming
  /\ UNCHANGED <<config, contOnly, isSpeaking, transcript,
                 mediaRecorder, audioChunks, acq, recStream,
                 timerText, lastResult, speakRefs, speakEnv, onSpeakEndCalls,
                 resumeCount, stopped, stopCalls,
                 blankCalls>>

NextListen ==
  \/ StartListening
  \/ \E a \in Acqs : AcquireOk(a) \/ AcquireFail(a)
  \/ Tick
  \/ \E l \in Acqs, loud \in BOOLEAN : Frame(l, loud)
  \/ \E r \in Recs, hasData \in BOOLEAN : RecorderStopped(r, hasData)
  \/ \E r \in Recs, res \in Transcripts \cup {Null} : SttResponse(r, res)
  \/ \E r \in Recs : AutoSendTimer(r)
  \/ StopListening

\* -------------------------------------------- record-and-submit: playback
\* What no step of the playback path touches.
listenKept == <<config, contOnly, isListening, transcript, vadReady, userSpeaking,
                isActive, mediaStream, analyser, analyserCtx, animFrame,
                mediaRecorder, audioChunks, acq, liveStreams, closedCtx, loops,
                recStream, timerText, autoSent, lastResult, accOrigin>>
listenOnly == <<listenKept, accumulatedText, hasSpeech>>
resumeVars == <<isSpeaking, energyMonitorPaused, isSpeechActive, timing,
                onSpeakEndCalls>>
synthVars == <<utt, poll, doneTimers>>
callCounters == <<stopped, stopCalls, blankCalls>>

\* speak() without its guard
GuardBlocksNever == FALSE

\* speak()'s guard: `if (speakingGuardRef.current) return`
GuardBlocks == speakingGuard

\* resumeAfterSpeaking without the re-arming of the detector
ResumeLeavesDetector ==
  /\ isSpeaking' = FALSE
  /\ UNCHANGED <<energyMonitorPaused, isSpeechActive, timing>>
  /\ onSpeakEndCalls' = onSpeakEndCalls + 1

\* resumeAfterSpeaking()
ResumeAfterSpeaking ==
  /\ isSpeaking' = FALSE
  /\ energyMonitorPaused' = IF isActive THEN FALSE ELSE energyMonitorPaused
  /\ isSpeechActive' = IF isActive THEN FALSE ELSE isSpeechActive
  /\ IF isActive THEN ResetTiming ELSE UNCHANGED timing
  /\ onSpeakEndCalls' = onSpeakEndCalls + 1

\* an end of a speak() continuation that leaves the guard set
FinishKeepsGuard(c) ==
  /\ UNCHANGED speakingGuard
  /\ ResumeAfterSpeaking
  /\ resumeCount' = [resumeCount EXCEPT ![c] = @ + 1]

\* The end of a speak() continuation, in each of its four places:
\* `speakingGuardRef.current = false; resumeAfterSpeaking()`
Finish(c) ==
  /\ speakingGuard' = FALSE
  /\ ResumeAfterSpeaking
  /\ resumeCount' = [resumeCount EXCEPT ![c] = @ + 1]

NoFinish == UNCHANGED <<speakingGuard, resumeVars, resumeCount>>

\* window.speechSynthesis.cancel(): an utterance being spoken stops at once;
\* its end or error event is delivered later.
Cancelled(u) ==
  [d \in Calls |-> IF hasSynth /\ u[d] = "speaking" THEN "cancelled" ELSE u[d]]

\* a last tier that starts the streaming tier over instead
SpeakWithStreamAgain(c) ==
  /\ pc' = [pc EXCEPT ![c] = "streamFetch"]
  /\ UNCHANGED <<utt, poll, doneTimers>>

\* speakWithBrowser() up to its return, called by the continuation of call c.
SpeakWithBrowser(c) ==
  /\ pc' = [pc EXCEPT ![c] = "browser"]
  /\ IF ~hasSynth
     THEN /\ doneTimers' = [doneTimers EXCEPT ![c] = @ + 1]
          /\ UNCHANGED <<utt, poll>>
     ELSE /\ utt' = [Cancelled(utt) EXCEPT ![c] = "speaking"]
          /\ poll' = [poll EXCEPT ![c] = TRUE]
          /\ UNCHANGED doneTimers

\* a prepareForSpeaking that empties the buffer
PrepareForSpeakingDiscards ==
  /\ energyMonitorPaused' = TRUE
  /\ isSpeechActive' = FALSE
  /\ ResetTiming
  /\ recState' = StopRecordingRec(recState, mediaRecorder)
  /\ isRecording' = FALSE
  /\ accumulatedText' = <<>> /\ hasSpeech' = FALSE

\* prepareForSpeaking(): the detector is paused and a recording in progress
\* is stopped; the buffer is not written.  (clearTimers: this variant never
\* sets the three timers it clears.)
PrepareForSpeaking ==
  /\ energyMonitorPaused' = TRUE
  /\ isSpeechActive' = FALSE
  /\ ResetTiming
  /\ recState' = StopRecordingRec(recState, mediaRecorder)
  /\ isRecording' = FALSE
  /\ UNCHANGED <<accumulatedText, hasSpeech>>

\* speak(text, lang)
Speak(text) ==
  /\ hook = "record"
  /\ mounted
  /\ lastOp' = IF ~Truthy(Trim(text)) THEN "speakBlank"
               ELSE IF speakingGuard THEN "speakBusy" ELSE "speak"
  /\ IF ~Truthy(Trim(text))
     THEN /\ Used < MaxOps
          /\ blankCalls' = blankCalls + 1
          /\ onSpeakEndCalls' = onSpeakEndCalls + 1
          /\ UNCHANGED <<listenOnly, timing, isSpeaking, energyMonitorPaused,
                         isSpeechActive, recState, isRecording, speakRefs,
                         speakEnv, resumeCount, stopped, stopCalls>>
     ELSE IF GuardBlocks
     THEN UNCHANGED sessionState
     ELSE /\ FreeId(pc, Room) # 0
          /\ speakingGuard' = TRUE
          /\ PrepareForSpeaking
          /\ isSpeaking' = TRUE
          \* speakWithSarvamStream up to the fetch
          /\ streamAbort' = FreeId(pc, Room)
          /\ pc' = [pc EXCEPT ![FreeId(pc, Room)] = "streamFetch"]
          /\ UNCHANGED <<listenKept, sarvamAudio, audio, synthVars,
                         onSpeakEndCalls, resumeCount, callCounters>>

\* The /api/tts-stream fetch settles without an abort: a usable response, or
\* a response without a body or a network error.
StreamResponse(c, ok) ==
  /\ hook = "record"
  /\ pc[c] = "streamFetch"
  /\ IF ok
     THEN /\ pc' = [pc EXCEPT ![c] = "streamRead"]
          /\ UNCHANGED streamAbort
     ELSE /\ pc' = [pc EXCEPT ![c] = "restFetch"]
          /\ streamAbort' = 0
  /\ NoFinish
  /\ lastOp' = "event"
  /\ UNCHANGED <<listenOnly, recState, isRecording, sarvamAudio, audio,
                 synthVars, callCounters>>

\* The /api/tts-stream fetch resolves with a non-2xx response: the tier
\* goes on to read the error body, `await response.json().catch(() => ({}))`.
StreamRejected(c) ==
  /\ hook = "record"
  /\ pc[c] = "streamFetch"
  /\ pc' = [pc EXCEPT ![c] = "streamErrBody"]
  /\ NoFinish
  /\ lastOp' = "event"
  /\ UNCHANGED <<listenOnly, recState, isRecording, streamAbort, sarvamAudio,
                 audio, synthVars, callCounters>>

\* The read of the error body settles, by a value or by a rejection that the
\* catch swallows (an abort included): the tier returns false.
StreamErrorBody(c) ==
  /\ hook = "record"
  /\ pc[c] = "streamErrBody"
  /\ pc' = [pc EXCEPT ![c] = "restFetch"]
  /\ streamAbort' = 0
  /\ NoFinish
  /\ lastOp' = "event"
  /\ UNCHANGED <<listenOnly, recState, isRecording, sarvamAudio, audio,
                 synthVars, callCounters>>

\* How an SSE response ends: with the done event, with an error event, by
\* the end of the body, or by a read that rejects (the connection broke).
StreamEndings == {"done", "error", "eof", "broken"}

\* a read loop that plays what it received before an error event
PlayableDespiteError(n, ending) == n # 0

\* The test after the read loop, `if (hasError || audioChunks.length === 0)
\* return false`, for a response that carried n audio events.
Playable(n, ending) == ending # "error" /\ n # 0

\* The SSE read loop ends without an abort, having received n audio events.
StreamEnd(c, n, ending) ==
  /\ hook = "record"
  /\ pc[c] = "streamRead"
  /\ streamAbort' = 0
  \* a rejected read goes to the catch, which returns false
  /\ pc' = [pc EXCEPT ![c] = IF ending # "broken" /\ Playable(n, ending)
                             THEN "streamDecode" ELSE "restFetch"]
  /\ NoFinish
  /\ lastOp' = IF ending = "error" /\ n # 0 THEN "streamErrorAfterAudio" ELSE "event"
  /\ UNCHANGED <<listenOnly, recState, isRecording, sarvamAudio, audio,
                 synthVars, callCounters>>

\* The fetch or the read rejects with AbortError: the tier returns true and
\* speak() takes its success branch.
StreamAbortError(c) ==
  /\ hook = "record"
  /\ pc[c] = "streamAborted"
  /\ pc' = [pc EXCEPT ![c] = "done"]
  /\ Finish(c)
  /\ lastOp' = "event"
  /\ UNCHANGED <<listenOnly, recState, isRecording, streamAbort, sarvamAudio,
                 audio, synthVars, callCounters>>

\* startPlayback after decodeAudioData settles: a buffer source starts, or
\* (decode failed) an audio element starts, or its play() is rejected.
StreamDecoded(c, how) ==
  /\ hook = "record"
  /\ pc[c] = "streamDecode"
  /\ CASE how = "source" ->
            /\ sarvamAudio' = <<c, "streamSrc">>
            /\ audio' = [audio EXCEPT ![c] = "playing"]
            /\ pc' = [pc EXCEPT ![c] = "streamPlay"]
       [] how = "element" ->
            /\ sarvamAudio' = <<c, "streamEl">>
            /\ audio' = [audio EXCEPT ![c] = "playing"]
            /\ pc' = [pc EXCEPT ![c] = "streamPlayEl"]
       [] how = "failed" ->
            /\ sarvamAudio' = <<>>
            /\ pc' = [pc EXCEPT ![c] = "restFetch"]
            /\ UNCHANGED audio
  /\ NoFinish
  /\ lastOp' = "event"
  /\ UNCHANGED <<listenOnly, recState, isRecording, streamAbort, synthVars,
                 callCounters>>

\* source.onended of the streaming tier (the buffer ran out or was stopped).
StreamSourceEnded(c) ==
  /\ hook = "record"
  /\ pc[c] = "streamPlay"
  /\ sarvamAudio' = <<>>
  /\ audio' = [audio EXCEPT ![c] = "none"]
  /\ pc' = [pc EXCEPT ![c] = "done"]
  /\ Finish(c)
  /\ lastOp' = "event"
  /\ UNCHANGED <<listenOnly, recState, isRecording, streamAbort, synthVars,
                 callCounters>>

\* audio.onended / audio.onerror of the streaming tier's audio element.
StreamElementEnded(c, ok) ==
  /\ hook = "record"
  /\ pc[c] = "streamPlayEl" /\ audio[c] = "playing"
  /\ sarvamAudio' = <<>>
  /\ audio' = [audio EXCEPT ![c] = "none"]
  /\ IF ok
     THEN pc' = [pc EXCEPT ![c] = "done"] /\ Finish(c)
     ELSE pc' = [pc EXCEPT ![c] = "restFetch"] /\ NoFinish
  /\ lastOp' = "event"
  /\ UNCHANGED <<listenOnly, recState, isRecording, streamAbort, synthVars,
                 callCounters>>

\* The /api/tts fetch settles: audio bytes, or a non-2xx response, an empty
\* body, a network error or the 15 s client timeout.
RestResponse(c, ok) ==
  /\ hook = "record"
  /\ pc[c] = "restFetch"
  /\ IF ok
     THEN pc' = [pc EXCEPT ![c] = "restDecode"] /\ UNCHANGED synthVars
     ELSE SpeakWithBrowser(c)
  /\ NoFinish
  /\ lastOp' = "event"
  /\ UNCHANGED <<listenOnly, recState, isRecording, speakRefs, audio,
                 callCounters>>

\* decodeAudioData of the single-shot tier settles.
RestDecoded(c, how) ==
  /\ hook = "record"
  /\ pc[c] = "restDecode"
  /\ CASE how = "source" ->
            /\ sarvamAudio' = <<c, "restSrc">>
            /\ audio' = [audio EXCEPT ![c] = "playing"]
            /\ pc' = [pc EXCEPT ![c] = "restPlay"]
            /\ UNCHANGED synthVars
       [] how = "element" ->
            /\ sarvamAudio' = <<c, "restEl">>
            /\ audio' = [audio EXCEPT ![c] = "playing"]
            /\ pc' = [pc EXCEPT ![c] = "restPlayEl"]
            /\ UNCHANGED synthVars
       [] how = "failed" ->
            /\ sarvamAudio' = <<>>
            /\ SpeakWithBrowser(c)
            /\ UNCHANGED audio
  /\ NoFinish
  /\ lastOp' = "event"
  /\ UNCHANGED <<listenOnly, recState, isRecording, speakingGuard, streamAbort,
                 callCounters>>

\* source.onended of the single-shot tier while its promise is unresolved.
RestSourceEnded(c) ==
  /\ hook = "record"
  /\ pc[c] = "restPlay"
  /\ audio' = [audio EXCEPT ![c] = "none"]
  /\ pc' = [pc EXCEPT ![c] = "done"]
  /\ Finish(c)
  /\ lastOp' = "event"
  /\ UNCHANGED <<listenOnly, recState, isRecording, streamAbort, sarvamAudio,
                 synthVars, callCounters>>

\* The single-shot tier's promise was resolved with false by pause():
\* speak() goes on to platform synthesis.
RestSourceStopped(c) ==
  /\ hook = "record"
  /\ pc[c] = "restStopped"
  /\ SpeakWithBrowser(c)
  /\ NoFinish
  /\ lastOp' = "event"
  /\ UNCHANGED <<listenOnly, recState, isRecording, speakRefs, audio,
                 callCounters>>

\* audio.onended / audio.onerror of the single-shot tier's audio element.
RestElementEnded(c, ok) ==
  /\ hook = "record"
  /\ pc[c] = "restPlayEl" /\ audio[c] = "playing"
  /\ sarvamAudio' = <<>>
  /\ audio' = [audio EXCEPT ![c] = "none"]
  /\ IF ok
     THEN pc' = [pc EXCEPT ![c] = "done"] /\ Finish(c) /\ UNCHANGED synthVars
     ELSE SpeakWithBrowser(c) /\ NoFinish
  /\ lastOp' = "event"
  /\ UNCHANGED <<listenOnly, recState, isRecording, streamAbort, callCounters>>

\* utterance.onend; fast = it comes less than 200 ms after speak(), which is
\* before the 500 ms check.
UtteranceEnd(c, fast) ==
  /\ hook = "record"
  /\ utt[c] \in {"speaking", "cancelled"}
  /\ fast => poll[c]
  /\ utt' = [utt EXCEPT ![c] = "over"]
  /\ IF fast
     THEN /\ doneTimers' = [doneTimers EXCEPT ![c] = @ + 1]
          /\ NoFinish
     ELSE /\ Finish(c)
          /\ UNCHANGED doneTimers
  /\ lastOp' = "event"
  /\ UNCHANGED <<listenOnly, recState, isRecording, streamAbort, sarvamAudio,
                 pc, audio, poll, callCounters>>

\* utterance.onerror
UtteranceError(c) ==
  /\ hook = "record"
  /\ utt[c] \in {"speaking", "cancelled"}
  /\ utt' = [utt EXCEPT ![c] = "over"]
  /\ doneTimers' = [doneTimers EXCEPT ![c] = @ + 1]
  /\ NoFinish
  /\ lastOp' = "event"
  /\ UNCHANGED <<listenOnly, recState, isRecording, speakRefs, pc, audio, poll,
                 callCounters>>

\* The 500 ms check of speakWithBrowser.
SynthCheck(c) ==
  /\ hook = "record"
  /\ poll[c]
  /\ poll' = [poll EXCEPT ![c] = FALSE]
  /\ IF \A d \in Calls : utt[d] # "speaking"
     THEN doneTimers' = [doneTimers EXCEPT ![c] = @ + 1]
     ELSE UNCHANGED doneTimers
  /\ NoFinish
  /\ lastOp' = "event"
  /\ UNCHANGED <<listenOnly, recState, isRecording, speakRefs, pc, audio, utt,
                 callCounters>>

\* A setTimeout(onDone, ...) of speakWithBrowser fires.
DoneTimer(c) ==
  /\ hook = "record"
  /\ doneTimers[c] > 0
  /\ doneTimers' = [doneTimers EXCEPT ![c] = @ - 1]
  /\ Finish(c)
  /\ lastOp' = "event"
  /\ UNCHANGED <<listenOnly, recState, isRecording, streamAbort, sarvamAudio,
                 pc, audio, utt, poll, callCounters>>

\* sarvamAudioRef.current.pause() for the object the ref holds.
Paused(a) ==
  IF sarvamAudio = <<>> THEN a
  ELSE LET c == sarvamAudio[1]
           k == sarvamAudio[2]
       IN  IF a[c] # "playing" THEN a
           ELSE IF k = "streamSrc" /\ pc[c] = "streamPlay"
                THEN [a EXCEPT ![c] = "stopped"]
           ELSE IF k = "restSrc" /\ pc[c] = "restPlay"
                THEN [a EXCEPT ![c] = "none"]
           ELSE IF (k = "streamEl" /\ pc[c] = "streamPlayEl")
                   \/ (k = "restEl" /\ pc[c] = "restPlayEl")
                THEN [a EXCEPT ![c] = "paused"]
           ELSE a

\* Where the continuation of call c stands after streamAbortRef.abort() and
\* sarvamAudioRef.pause(): an aborted fetch or read rejects with AbortError
\* (an aborted read of the error body rejects into its own catch), and a
\* stopped buffer source of the single-shot tier resolves its promise.
AfterAbort(c) ==
  IF c = streamAbort /\ pc[c] # "streamErrBody" THEN "streamAborted"
  ELSE IF sarvamAudio = <<c, "restSrc">> /\ pc[c] = "restPlay" THEN "restStopped"
  ELSE pc[c]

\* stopSpeaking()
StopSpeaking ==
  /\ hook = "record"
  /\ mounted
  /\ Used < MaxOps
  /\ stopCalls' = stopCalls + 1
  /\ stopped' = stopped \cup {c \in Calls : pc[c] # "unused" /\ resumeCount[c] = 0}
  /\ speakingGuard' = FALSE
  /\ streamAbort' = 0
  /\ sarvamAudio' = <<>>
  /\ audio' = Paused(audio)
  /\ pc' = [c \in Calls |-> AfterAbort(c)]
  /\ utt' = Cancelled(utt)
  /\ ResumeAfterSpeaking
  /\ lastOp' = "stopSpeaking"
  /\ UNCHANGED <<listenOnly, recState, isRecording, poll, doneTimers,
                 resumeCount, blankCalls>>

\* The cleanup of the unmount effect.
Unmount ==
  /\ hook = "record"
  /\ mounted
  /\ Used < MaxOps
  /\ mounted' = FALSE
  /\ isActive' = FALSE
  \* clearTimers: this variant never sets the three timers it clears
  /\ recState' = StopRecordingRec(recState, mediaRecorder)
  /\ isRecording' = FALSE
  /\ loops' = loops \ {animFrame}
  /\ animFrame' = 0
  /\ IF analyserCtx # 0 /\ analyserCtx \notin closedCtx
     THEN closedCtx' = closedCtx \cup {analyserCtx} /\ analyserCtx' = 0
     ELSE UNCHANGED <<closedCtx, analyserCtx>>
  /\ analyser' = 0
  /\ liveStreams' = liveStreams \ {mediaStream}
  /\ mediaStream' = 0
  /\ mediaRecorder' = 0
  /\ utt' = Cancelled(utt)
  /\ audio' = Paused(audio)
  /\ sarvamAudio' = <<>>
  /\ pc' = [c \in Calls |-> AfterAbort(c)]
  /\ streamAbort' = 0
  /\ speakingGuard' = FALSE
  /\ lastOp' = "unmount"
  /\ UNCHANGED <<platform, langVars, outside, contOnly, uiVars, accumulatedText, hasSpeech,
                 energyMonitorPaused, isSpeechActive, timing, audioChunks,
                 acq, recStream, timerText, poll, doneTimers, autoSent,
                 lastResult, accOrigin, onSpeakEndCalls, resumeCount,
                 stopped, stopCalls, blankCalls>>

NextSpeak ==
  \/ \E text \in SpeakTexts : Speak(text)
  \/ \E c \in Calls, ok \in BOOLEAN : StreamResponse(c, ok)
  \/ \E c \in Calls : StreamRejected(c)
  \/ \E c \in Calls : StreamErrorBody(c)
  \/ \E c \in Calls, n \in 0..MaxChunks, e \in StreamEndings : StreamEnd(c, n, e)
  \/ \E c \in Calls : StreamAbortError(c)
  \/ \E c \in Calls, how \in {"source", "element", "failed"} : StreamDecoded(c, how)
  \/ \E c \in Calls : StreamSourceEnded(c)
  \/ \E c \in Calls, ok \in BOOLEAN : StreamElementEnded(c, ok)
  \/ \E c \in Calls, ok \in BOOLEAN : RestResponse(c, ok)
  \/ \E c \in Calls, how \in {"source", "element", "failed"} : RestDecoded(c, how)
  \/ \E c \in Calls : RestSourceEnded(c)
  \/ \E c \in Calls : RestSourceStopped(c)
  \/ \E c \in Calls, ok \in BOOLEAN : RestElementEnded(c, ok)
  \/ \E c \in Calls, fast \in BOOLEAN : UtteranceEnd(c, fast)
  \/ \E c \in Calls : UtteranceError(c)
  \/ \E c \in Calls : SynthCheck(c)
  \/ \E c \in Calls : DoneTimer(c)
  \/ StopSpeaking
  \/ Unmount

\* --------------------------------------------------- continuous recognizer
\* What no step of the continuous-recognizer hook touches.
recordRefs == <<energyMonitorPaused, isSpeechActive, sinceSpeechStart,
                sinceLastSpeech, speechSpan, mediaStream, analyser, analyserCtx, animFrame,
                mediaRecorder, isRecording, audioChunks, liveStreams, closedCtx,
                loops, recState, recStream, timerText, speakRefs, audio, poll,
                doneTimers, accOrigin, resumeCount, stopped, blankCalls>>
recordOnly == <<config, recordRefs>>

\* recognition.abort() on the instance the ref holds
Abort(rg, ref) ==
  IF ref # 0 /\ rg[ref] = "running" THEN [rg EXCEPT ![ref] = "aborted"] ELSE rg

\* The result list of an aborted instance is delivered no more.
Dropped(rf, ref) == IF ref # 0 THEN [rf EXCEPT ![ref] = <<>>] ELSE rf

\* stopRecognition()
StopRecognition ==
  /\ recog' = Abort(recog, recognitionRef)
  /\ recFinal' = Dropped(recFinal, recognitionRef)
  /\ recognitionRef' = 0
  /\ UNCHANGED recLang

\* startRecognition()
StartRecognition ==
  /\ FreeId(recog, Room) # 0
  /\ recog' = [Abort(recog, recognitionRef) EXCEPT ![FreeId(recog, Room)] = "running"]
  /\ recFinal' = Dropped(recFinal, recognitionRef)
  /\ recognitionRef' = FreeId(recog, Room)
  /\ recLang' = [recLang EXCEPT ![FreeId(recog, Room)] = language]

\* doAutoSend's guard in this hook: `finalText && hasSpeechRef.current`
AutoSendGuardC(t, hs) == Truthy(Trim(t)) /\ hs

\* doAutoSend(), called from the timer named by `via`
DoAutoSendC(via) ==
  IF AutoSendGuardC(accumulatedText, hasSpeech)
  THEN /\ accumulatedText' = <<>>
       /\ finalsSince' = <<>>
       /\ hasSpeech' = FALSE
       /\ transcript' = <<>>
       /\ userSpeaking' = FALSE
       /\ StopRecognition
       /\ autoSent' = Append(autoSent, [text |-> Trim(accumulatedText),
                                        rec |-> 0, via |-> via])
  ELSE UNCHANGED <<accumulatedText, hasSpeech, transcript, userSpeaking, recog, recLang,
                   recognitionRef, recFinal, autoSent, finalsSince>>

\* startListening()
StartListeningC ==
  /\ hook = "continuous"
  /\ mounted
  /\ lastOp' = IF isActive THEN "startListeningActive" ELSE "startListening"
  /\ IF isActive
     THEN UNCHANGED sessionState
     ELSE /\ FreeId(acq, Room) # 0
          /\ isActive' = TRUE
          /\ accumulatedText' = <<>>
          /\ finalsSince' = <<>>
          /\ hasSpeech' = FALSE
          /\ transcript' = <<>>
          /\ isListening' = TRUE
          /\ vadReady' = FALSE
          /\ acq' = [acq EXCEPT ![FreeId(acq, Room)] = "pending"]
          /\ UNCHANGED <<recordOnly, speechEndTimer, silenceTimer, restartTimer,
                         vadRef, vadState, vadSpeech, recognitionRef, recog, recLang,
                         recFinal, isSpeaking, userSpeaking, pc,
                         utt, autoSent, lastResult, onSpeakEndCalls, stopCalls>>

\* MicVAD.new resolves (ok) or the import or the load rejects: the rest of
\* startListening.
VadLoaded(a, ok) ==
  /\ hook = "continuous"
  /\ acq[a] = "pending"
  /\ acq' = [acq EXCEPT ![a] = "done"]
  /\ IF Abandoned
     THEN /\ vadState' = IF ok THEN [vadState EXCEPT ![a] = "destroyed"] ELSE vadState
          /\ UNCHANGED <<vadRef, vadReady, recog, recognitionRef, recFinal, recLang>>
     ELSE /\ vadRef' = IF ok THEN a ELSE vadRef
          /\ vadState' = IF ok THEN [vadState EXCEPT ![a] = "running"] ELSE vadState
          /\ vadReady' = TRUE
          /\ StartRecognition
  /\ lastOp' = "event"
  /\ UNCHANGED <<recordOnly, speechEndTimer, silenceTimer, restartTimer,
                 vadSpeech, finalsSince, isListening, isSpeaking, transcript,
                 userSpeaking, isActive, accumulatedText, hasSpeech, pc, utt,
                 autoSent, lastResult, onSpeakEndCalls, stopCalls>>

\* recognition.onresult: one more final fragment, or an interim fragment
\* after the final ones.
RecogResult(r, frag, final) ==
  /\ hook = "continuous"
  /\ recog[r] = "running"
  /\ Len(autoSent) < MaxEmit
  /\ final => Len(recFinal[r]) < MaxFinals
  /\ LET allFinal == IF final THEN recFinal[r] \o frag ELSE recFinal[r]
         currentInterim == IF final THEN <<>> ELSE frag
         speech == IF isActive /\ (Truthy(allFinal) \/ Truthy(currentInterim))
                   THEN TRUE ELSE hasSpeech
     IN  /\ recFinal' = [recFinal EXCEPT ![r] = allFinal]
         /\ finalsSince' = IF isActive /\ final THEN finalsSince \o frag
                          ELSE finalsSince
         /\ hasSpeech' = speech
         /\ lastResult' = IF isActive /\ Truthy(allFinal)
                            THEN OnResult(lastResult, allFinal) ELSE lastResult
         /\ IF isActive /\ Truthy(allFinal)
            THEN accumulatedText' = allFinal /\ transcript' = allFinal
            ELSE UNCHANGED <<accumulatedText, transcript>>
         /\ userSpeaking' = IF isActive /\ Truthy(currentInterim)
                            THEN TRUE ELSE userSpeaking
         \* resetSilenceTimer, reached when there is an interim fragment or
         \* hasSpeech is set
         /\ silenceTimer' = IF isActive /\ (Truthy(currentInterim) \/ speech)
                            THEN speech /\ isActive ELSE silenceTimer
  /\ lastOp' = "event"
  /\ UNCHANGED <<recordOnly, speechEndTimer, restartTimer, vadRef, vadState,
                 vadSpeech, recognitionRef, recog, recLang, isListening, isSpeaking,
                 vadReady, isActive, acq, pc, utt, autoSent, onSpeakEndCalls,
                 stopCalls>>

\* a restart that copies the language of the instance that ended
RestartLangCopied(r) == recLang[r]

\* `r.lang = languageRef.current` in recognition.onend
RestartLang(r) == language

\* recognition.onend: the instance ended by itself or after abort().
RecogEnd(r) ==
  /\ hook = "continuous"
  /\ recog[r] \in {"running", "aborted"}
  /\ IF isActive
     THEN /\ FreeId(recog, Room) # 0
          /\ recog' = [recog EXCEPT ![r] = "ended",
                                    ![FreeId(recog, Room)] = "running"]
          /\ recognitionRef' = FreeId(recog, Room)
          /\ recLang' = [recLang EXCEPT ![FreeId(recog, Room)] = RestartLang(r)]
     ELSE /\ recog' = [recog EXCEPT ![r] = "ended"]
          /\ UNCHANGED <<recognitionRef, recLang>>
  \* the ended session's result list goes with it
  /\ recFinal' = [recFinal EXCEPT ![r] = <<>>]
  /\ lastOp' = "event"
  /\ UNCHANGED <<recordOnly, speechEndTimer, silenceTimer, restartTimer, vadRef,
                 vadState, vadSpeech, finalsSince, uiVars, isActive,
                 accumulatedText, hasSpeech, acq, pc, utt, autoSent, lastResult,
                 onSpeakEndCalls, stopCalls>>

\* The 1500 ms silence timer of resetSilenceTimer fires.
SilenceTimerFires ==
  /\ hook = "continuous"
  /\ silenceTimer
  /\ silenceTimer' = FALSE
  /\ IF isActive /\ hasSpeech
     THEN DoAutoSendC("silence")
     ELSE UNCHANGED <<accumulatedText, hasSpeech, transcript, userSpeaking,
                      finalsSince, recog, recognitionRef, recFinal, recLang, autoSent>>
  /\ lastOp' = "event"
  /\ UNCHANGED <<recordOnly, speechEndTimer, restartTimer, vadRef, vadState,
                 vadSpeech, isListening, isSpeaking, vadReady,
                 isActive, acq, pc, utt, lastResult, onSpeakEndCalls, stopCalls>>

\* an onVADMisfire that calls handleSpeechEnd as onSpeechEnd does
OnVADMisfireEnds(t) == TRUE

\* onVADMisfire leaves the 800 ms speech-end timer as it is
OnVADMisfire(t) == t

\* The model detector's callbacks: onSpeechStart, onSpeechEnd (which calls
\* handleSpeechEnd) and onVADMisfire.
VadEvent(v, ev) ==
  /\ hook = "continuous"
  /\ vadState[v] = "running"
  /\ CASE ev = "speechStart" ->
            /\ ~vadSpeech[v]
            /\ vadSpeech' = [vadSpeech EXCEPT ![v] = TRUE]
            /\ userSpeaking' = TRUE
            /\ speechEndTimer' = FALSE
            /\ silenceTimer' = FALSE
       [] ev = "speechEnd" ->
            /\ vadSpeech[v]
            /\ vadSpeech' = [vadSpeech EXCEPT ![v] = FALSE]
            /\ userSpeaking' = FALSE
            /\ speechEndTimer' = TRUE
            /\ UNCHANGED silenceTimer
       [] ev = "misfire" ->
            /\ vadSpeech[v]
            /\ vadSpeech' = [vadSpeech EXCEPT ![v] = FALSE]
            /\ userSpeaking' = FALSE
            /\ speechEndTimer' = OnVADMisfire(speechEndTimer)
            /\ UNCHANGED silenceTimer
  /\ lastOp' = ev
  /\ UNCHANGED <<recordOnly, restartTimer, vadRef, vadState, recognitionRef,
                 recog, recFinal, recLang, finalsSince, isListening, isSpeaking,
                 transcript, vadReady,
                 isActive, accumulatedText, hasSpeech, acq, pc, utt, autoSent, lastResult,
                 onSpeakEndCalls, stopCalls>>

\* The 800 ms timer of handleSpeechEnd fires.  Its 300 ms restart timer has
\* always fired before the next 800 ms timer does.
SpeechEndTimerFires ==
  /\ hook = "continuous"
  /\ speechEndTimer
  /\ ~restartTimer
  /\ speechEndTimer' = FALSE
  /\ IF isActive /\ hasSpeech
     THEN /\ DoAutoSendC("speechEnd")
          /\ restartTimer' = continuous
     ELSE UNCHANGED <<accumulatedText, hasSpeech, transcript, userSpeaking,
                      finalsSince, recog, recognitionRef, recFinal, recLang,
                      autoSent, restartTimer>>
  /\ lastOp' = "event"
  /\ UNCHANGED <<recordOnly, silenceTimer, vadRef, vadState, vadSpeech,
                 isListening, isSpeaking, vadReady, isActive, acq,
                 pc, utt, lastResult, onSpeakEndCalls, stopCalls>>

\* The 300 ms restart timer fires.
RestartTimerFires ==
  /\ hook = "continuous"
  /\ restartTimer
  /\ restartTimer' = FALSE
  /\ IF isActive THEN StartRecognition
     ELSE UNCHANGED <<recog, recognitionRef, recFinal, recLang>>
  /\ lastOp' = "event"
  /\ UNCHANGED <<recordOnly, speechEndTimer, silenceTimer, vadRef, vadState,
                 vadSpeech, finalsSince, uiVars, isActive, accumulatedText,
                 hasSpeech, acq, pc, utt, autoSent, lastResult, onSpeakEndCalls, stopCalls>>

\* stopListening()
StopListeningC ==
  /\ hook = "continuous"
  /\ mounted
  /\ isActive' = FALSE
  \* clearTimers
  /\ speechEndTimer' = FALSE
  /\ silenceTimer' = FALSE
  /\ StopRecognition
  /\ vadState' = IF vadRef # 0 THEN [vadState EXCEPT ![vadRef] = "destroyed"]
                 ELSE vadState
  /\ vadSpeech' = IF vadRef # 0 THEN [vadSpeech EXCEPT ![vadRef] = FALSE]
                  ELSE vadSpeech
  /\ vadRef' = 0
  /\ accumulatedText' = BufferAfterFlush(accumulatedText)
  /\ hasSpeech' = FALSE
  /\ finalsSince' = <<>>
  /\ isListening' = FALSE
  /\ userSpeaking' = FALSE
  /\ vadReady' = FALSE
  /\ IF Truthy(Trim(accumulatedText))
     THEN autoSent' = Append(autoSent, [text |-> Trim(accumulatedText),
                                        rec |-> 0, via |-> "stop"])
     ELSE UNCHANGED autoSent
  /\ lastOp' = "stopListening"
  /\ UNCHANGED <<recordOnly, restartTimer, isSpeaking, transcript,
                 acq, pc, utt, lastResult, onSpeakEndCalls, stopCalls>>

\* The restart of detector and recognizer after playback (utterance.onend,
\* utterance.onerror and stopSpeaking share it).
RestartAfterPlayback ==
  /\ isSpeaking' = FALSE
  /\ IF isActive
     THEN /\ vadState' = IF vadRef # 0 THEN [vadState EXCEPT ![vadRef] = "running"]
                         ELSE vadState
          /\ StartRecognition
     ELSE UNCHANGED <<vadState, recog, recognitionRef, recFinal, recLang>>
  /\ onSpeakEndCalls' = onSpeakEndCalls + 1

\* speak(text, lang)
SpeakC ==
  /\ hook = "continuous"
  /\ mounted
  /\ lastOp' = "speak"
  /\ IF ~hasSynth
     THEN UNCHANGED sessionState
     ELSE /\ FreeId(pc, Room) # 0
          /\ pc' = [pc EXCEPT ![FreeId(pc, Room)] = "synth"]
          /\ utt' = [Cancelled(utt) EXCEPT ![FreeId(pc, Room)] = "speaking"]
          /\ vadState' = IF vadRef # 0 /\ isActive
                         THEN [vadState EXCEPT ![vadRef] = "paused"] ELSE vadState
          /\ vadSpeech' = IF vadRef # 0 /\ isActive
                          THEN [vadSpeech EXCEPT ![vadRef] = FALSE] ELSE vadSpeech
          /\ StopRecognition
          /\ speechEndTimer' = FALSE
          /\ silenceTimer' = FALSE
          /\ UNCHANGED <<recordOnly, restartTimer, vadRef, finalsSince, uiVars,
                         isActive, accumulatedText, hasSpeech, acq, autoSent, lastResult,
                         onSpeakEndCalls, stopCalls>>

\* utterance.onstart
UtteranceStartC(c) ==
  /\ hook = "continuous"
  /\ utt[c] = "speaking" /\ ~isSpeaking
  /\ isSpeaking' = TRUE
  /\ lastOp' = "event"
  /\ UNCHANGED <<recordOnly, contOnly, isListening, transcript, vadReady,
                 userSpeaking, isActive, accumulatedText, hasSpeech, acq, pc,
                 utt, autoSent, lastResult, onSpeakEndCalls, stopCalls>>

\* utterance.onend and utterance.onerror (the same handler body)
UtteranceDoneC(c) ==
  /\ hook = "continuous"
  /\ utt[c] \in {"speaking", "cancelled"}
  /\ utt' = [utt EXCEPT ![c] = "over"]
  /\ RestartAfterPlayback
  /\ lastOp' = "event"
  /\ UNCHANGED <<recordOnly, speechEndTimer, silenceTimer, restartTimer, vadRef,
                 vadSpeech, finalsSince, isListening, transcript, vadReady,
                 userSpeaking, isActive, accumulatedText, hasSpeech, acq, pc,
                 autoSent, lastResult, stopCalls>>

\* stopSpeaking()
StopSpeakingC ==
  /\ hook = "continuous"
  /\ mounted
  /\ Used < MaxOps
  /\ stopCalls' = stopCalls + 1
  /\ lastOp' = "stopSpeaking"
  /\ IF hasSynth
     THEN /\ utt' = Cancelled(utt)
          /\ RestartAfterPlayback
     ELSE UNCHANGED <<utt, isSpeaking, vadState, recog, recognitionRef, recFinal, recLang,
                      onSpeakEndCalls>>
  /\ UNCHANGED <<recordOnly, speechEndTimer, silenceTimer, restartTimer, vadRef,
                 vadSpeech, finalsSince, isListening, transcript, vadReady,
                 userSpeaking, isActive, accumulatedText, hasSpeech, acq, pc,
                 autoSent, lastResult>>

\* The cleanup of the unmount effect.
UnmountC ==
  /\ hook = "continuous"
  /\ mounted
  /\ Used < MaxOps
  /\ mounted' = FALSE
  /\ isActive' = FALSE
  \* clearTimers
  /\ speechEndTimer' = FALSE
  /\ silenceTimer' = FALSE
  /\ StopRecognition
  /\ vadState' = IF vadRef # 0 THEN [vadState EXCEPT ![vadRef] = "destroyed"]
                 ELSE vadState
  /\ vadSpeech' = IF vadRef # 0 THEN [vadSpeech EXCEPT ![vadRef] = FALSE]
                  ELSE vadSpeech
  /\ vadRef' = 0
  /\ utt' = Cancelled(utt)
  /\ lastOp' = "unmount"
  /\ UNCHANGED <<platform, langVars, outside, energyMonitorPaused, isSpeechActive, timing,
                 mediaStream, analyser, analyserCtx, animFrame, mediaRecorder,
                 isRecording, audioChunks, liveStreams, closedCtx, loops,
                 recState, recStream, timerText, speakRefs, audio, poll,
                 doneTimers, accOrigin, resumeCount, stopped, blankCalls,
                 restartTimer, finalsSince, uiVars, accumulatedText, hasSpeech,
                 acq, pc, autoSent, lastResult, onSpeakEndCalls, stopCalls>>

\* The `language` option changes to l: languageRef follows it, and the
\* language effect aborts a recognizer of another language and sets its
\* 200 ms restart timer.
SetLanguage(l) ==
  /\ hook = "continuous"
  /\ mounted
  /\ l # language
  /\ langChanges < MaxLang
  /\ language' = l
  /\ langChanges' = langChanges + 1
  /\ IF isActive /\ recognitionRef # 0 /\ recLang[recognitionRef] # l
     THEN StopRecognition /\ langTimers' = langTimers + 1
     ELSE UNCHANGED <<recog, recognitionRef, recFinal, recLang, langTimers>>
  /\ lastOp' = "setLanguage"
  /\ UNCHANGED <<platform, mounted, outside, recordRefs, speechEndTimer, silenceTimer,
                 restartTimer, vadRef, vadState, vadSpeech, finalsSince, uiVars,
                 isActive, accumulatedText, hasSpeech, acq, pc, utt, autoSent,
                 lastResult, onSpeakEndCalls, stopCalls>>

\* A 200 ms timer of the language effect fires.
LangTimerFires ==
  /\ hook = "continuous"
  /\ langTimers > 0
  /\ langTimers' = langTimers - 1
  /\ IF isActive THEN StartRecognition
     ELSE UNCHANGED <<recog, recognitionRef, recFinal, recLang>>
  /\ lastOp' = "event"
  /\ UNCHANGED <<platform, mounted, outside, language, langChanges, recordRefs,
                 speechEndTimer, silenceTimer, restartTimer, vadRef, vadState,
                 vadSpeech, finalsSince, uiVars, isActive, accumulatedText,
                 hasSpeech, acq, pc, utt, autoSent, lastResult, onSpeakEndCalls,
                 stopCalls>>

NextContinuous ==
  \/ StartListeningC
  \/ \E a \in Acqs, ok \in BOOLEAN : VadLoaded(a, ok)
  \/ \E r \in Recs, frag \in Fragments, final \in BOOLEAN : RecogResult(r, frag, final)
  \/ \E r \in Recs : RecogEnd(r)
  \/ SilenceTimerFires
  \/ \E v \in Acqs, ev \in {"speechStart", "speechEnd", "misfire"} : VadEvent(v, ev)
  \/ SpeechEndTimerFires
  \/ RestartTimerFires
  \/ StopListeningC
  \/ SpeakC
  \/ \E c \in Calls : UtteranceStartC(c)
  \/ \E c \in Calls : UtteranceDoneC(c)
  \/ StopSpeakingC
  \/ UnmountC

Next == NextListen \/ NextSpeak \/ NextContinuous

Spec == Init /\ [][Next]_vars

\* ------------------------------------------------------------- progress
\* A task of the playback path that the browser has queued or will queue: a
\* request of speak() settles, a decode settles, a playback ends, fails or
\* was stopped, a timer fires.
Completes ==
  \/ \E c \in Calls, ok \in BOOLEAN : StreamResponse(c, ok)
  \/ \E c \in Calls : StreamRejected(c)
  \/ \E c \in Calls : StreamErrorBody(c)
  \/ \E c \in Calls, n \in 0..MaxChunks, e \in StreamEndings : StreamEnd(c, n, e)
  \/ \E c \in Calls : StreamAbortError(c)
  \/ \E c \in Calls, how \in {"source", "element", "failed"} : StreamDecoded(c, how)
  \/ \E c \in Calls : StreamSourceEnded(c)
  \/ \E c \in Calls, ok \in BOOLEAN : StreamElementEnded(c, ok)
  \/ \E c \in Calls, ok \in BOOLEAN : RestResponse(c, ok)
  \/ \E c \in Calls, how \in {"source", "element", "failed"} : RestDecoded(c, how)
  \/ \E c \in Calls : RestSourceEnded(c)
  \/ \E c \in Calls : RestSourceStopped(c)
  \/ \E c \in Calls, ok \in BOOLEAN : RestElementEnded(c, ok)
  \/ \E c \in Calls, fast \in BOOLEAN : UtteranceEnd(c, fast)
  \/ \E c \in Calls : UtteranceError(c)
  \/ \E c \in Calls : SynthCheck(c)
  \/ \E c \in Calls : DoneTimer(c)

\* The record-and-submit hook with the event loop running every task of the
\* playback path that is ready: a request, decode or playback that was
\* started settles, and a timer that was set fires.  Of the listening path
\* it has the steps that begin and end a session (isActive is what playback
\* reads of it); the detector, the recorders and the transcription write
\* nothing that playback reads.
LiveInit == Init /\ hook = "record"
LiveNext ==
  \/ NextSpeak
  \/ StartListening
  \/ \E a \in Acqs : AcquireOk(a) \/ AcquireFail(a)
  \/ StopListening
LiveSpec == LiveInit /\ [][LiveNext]_vars /\ WF_vars(Completes)

\* The continuous-recognizer hook in a component whose `language` option
\* changes while the hook is mounted: the life of the recognizers.  It has
\* every caller of startRecognition and stopRecognition except the auto-send
\* path (results, detector events and their timers), which reaches the
\* recognizer through the same two functions and reads no language.
LangInit == Init /\ hook = "continuous"
LangNext ==
  \/ StartListeningC
  \/ \E a \in Acqs, ok \in BOOLEAN : VadLoaded(a, ok)
  \/ \E r \in Recs : RecogEnd(r)
  \/ StopListeningC
  \/ SpeakC
  \/ \E c \in Calls : UtteranceStartC(c)
  \/ \E c \in Calls : UtteranceDoneC(c)
  \/ StopSpeakingC
  \/ UnmountC
  \/ \E l \in Langs : SetLanguage(l)
  \/ LangTimerFires
LangSpec == LangInit /\ [][LangNext]_vars

\* ------------------------------------------- server: POST /api/tts-stream
\* One request that passed validation (server/routes.ts, lines 1011-1136).
\* The handler bridges an upstream WebSocket of the `ws` package to a
\* server-sent-event response.  Each action is one callback of the handler.
\* The socket delivers frames that were in flight when close() was called:
\* its "message" event is emitted while it is open or closing.

\* Kinds of upstream message: an audio chunk, the final event, another
\* event, an error message.
MsgKinds == {"audio", "final", "event", "error"}

\* The socket after cleanup(ws): ws.close() on an open socket starts the
\* closing handshake; on a connecting one it aborts the handshake, which the
\* socket reports with an "error" and a "close" event.
CleanedUp ==
  IF wsCleanedUp THEN wsState
  ELSE IF wsState = "open" THEN "closing"
  ELSE IF wsState = "connecting" THEN "aborting"
  ELSE wsState

\* res.write of each event of evs.
ResWrite(evs) ==
  IF resEnded
  THEN sse' = sse /\ lateWrites' = lateWrites + Len(evs)
  ELSE sse' = sse \o evs /\ lateWrites' = lateWrites

\* res.end()
ResEnd == resEnded' = TRUE /\ endCalls' = endCalls + 1

\* The "open" event: the handler sends config, text and flush.
WsOpen ==
  /\ wsState = "connecting"
  /\ wsState' = "open"
  /\ UNCHANGED <<wsCleanedUp, timeoutPending, reqClosed, sse, resEnded, endCalls,
                 lateWrites, msgs, hookVars, pageVars>>

\* The "message" event.
WsMessage(kind) ==
  /\ wsState \in {"open", "closing"}
  /\ msgs < MaxMsgs
  /\ msgs' = msgs + 1
  /\ CASE kind = "audio" ->
            /\ ResWrite(<<"audio">>)
            /\ UNCHANGED <<wsState, wsCleanedUp, timeoutPending, resEnded, endCalls>>
       [] kind = "final" ->
            /\ timeoutPending' = FALSE
            /\ ResWrite(<<"done">>)
            /\ wsState' = CleanedUp /\ wsCleanedUp' = TRUE
            /\ ResEnd
       [] kind = "error" ->
            /\ timeoutPending' = FALSE
            /\ ResWrite(<<"error", "done">>)
            /\ wsState' = CleanedUp /\ wsCleanedUp' = TRUE
            /\ ResEnd
       [] OTHER ->
            UNCHANGED <<wsState, wsCleanedUp, timeoutPending, sse, resEnded, endCalls,
                        lateWrites>>
  /\ UNCHANGED <<reqClosed, hookVars, pageVars>>

\* The socket's "error" event; its "close" event follows.
WsError ==
  /\ wsState \in {"connecting", "open", "closing", "aborting"}
  /\ wsState' = "failed"
  /\ timeoutPending' = FALSE
  /\ IF resEnded
     THEN UNCHANGED <<sse, resEnded, endCalls, lateWrites>>
     ELSE ResWrite(<<"error", "done">>) /\ ResEnd
  /\ UNCHANGED <<wsCleanedUp, reqClosed, msgs, hookVars, pageVars>>

\* The socket's "close" event.
WsClose ==
  /\ wsState \in {"open", "closing", "failed"}
  /\ wsState' = "closed"
  /\ timeoutPending' = FALSE
  /\ IF resEnded
     THEN UNCHANGED <<sse, resEnded, endCalls, lateWrites>>
     ELSE ResWrite(<<"done">>) /\ ResEnd
  /\ UNCHANGED <<wsCleanedUp, reqClosed, msgs, hookVars, pageVars>>

\* The 30 s timer fires.
Timeout ==
  /\ timeoutPending
  /\ timeoutPending' = FALSE
  /\ ResWrite(<<"error", "done">>)
  /\ wsState' = CleanedUp /\ wsCleanedUp' = TRUE
  /\ ResEnd
  /\ UNCHANGED <<reqClosed, msgs, hookVars, pageVars>>

\* The request's "close" event: the client went away.
ReqClose ==
  /\ ~reqClosed
  /\ reqClosed' = TRUE
  /\ timeoutPending' = FALSE
  /\ wsState' = CleanedUp /\ wsCleanedUp' = TRUE
  /\ UNCHANGED <<sse, resEnded, endCalls, lateWrites, msgs, hookVars, pageVars>>

SrvInit == Init /\ hook = "record" /\ hasSynth
SrvNext ==
  \/ WsOpen
  \/ \E kind \in MsgKinds : WsMessage(kind)
  \/ WsError
  \/ WsClose
  \/ Timeout
  \/ ReqClose
SrvSpec == SrvInit /\ [][SrvNext]_vars

\* ----------------------------------------------------- the Builder page
\* The page that mounts the hook (pages/builder.tsx).  Each sendMessage call
\* takes the next index of Sends.  The page reaches sendMessage through the
\* closure a committed render left behind, which holds that render's
\* isStreaming and conversationId.  The input box, the pending flag and the
\* streamed text are display state and are left out; the outcome of a failed
\* conversation request is decided in lib/queryClient and is left out too.

\* Texts the hook passes to onAutoSend: trimmed and not blank.
AutoSendTexts == { <<"a">> }

\* The contents of the input box at a submit.
InputTexts == { <<" ">>, <<"a">> }

FreeSend == CHOOSE k \in Sends : fate[k] = "unused" /\ \A j \in 1..(k - 1) : fate[j] # "unused"

\* sendMessage(text) up to its first await
SendMessage(text, who) ==
  /\ \E k \in Sends : fate[k] = "unused"
  /\ sentBy' = [sentBy EXCEPT ![FreeSend] = who]
  /\ IF Trim(text) = <<>>
     THEN fate' = [fate EXCEPT ![FreeSend] = "blank"] /\ UNCHANGED isStreaming
     ELSE IF sendMessageRef.isStreaming
     THEN fate' = [fate EXCEPT ![FreeSend] = "dropped"] /\ UNCHANGED isStreaming
     ELSE IF sendMessageRef.conversationId = 0
     THEN fate' = [fate EXCEPT ![FreeSend] = "creating"] /\ UNCHANGED isStreaming
     ELSE fate' = [fate EXCEPT ![FreeSend] = "streaming"] /\ isStreaming' = TRUE
  /\ UNCHANGED <<conversationId, sendMessageRef, speakRequests>>

\* onAutoSend of the hook
handleAutoSend(text) ==
  /\ SendMessage(text, "autoSend")
  /\ UNCHANGED <<hookVars, srvVars>>

\* The send button or the Enter key.
handleSubmit(text) ==
  /\ SendMessage(text, "submit")
  /\ UNCHANGED <<hookVars, srvVars>>

\* The conversation request of call k returns; the message request is sent.
ConversationCreated(k) ==
  /\ fate[k] = "creating"
  /\ conversationId' = 1
  /\ isStreaming' = TRUE
  /\ fate' = [fate EXCEPT ![k] = "streaming"]
  /\ UNCHANGED <<sendMessageRef, sentBy, speakRequests, hookVars, srvVars>>

\* The response of call k carries its done event; say tells whether the
\* page reads the reply aloud (autoSpeak, a non-empty reply, no app created).
ResponseDone(k, say) ==
  /\ fate[k] = "streaming"
  /\ fate' = [fate EXCEPT ![k] = "done"]
  /\ isStreaming' = FALSE
  /\ speakRequests' = IF say THEN speakRequests + 1 ELSE speakRequests
  /\ UNCHANGED <<conversationId, sendMessageRef, sentBy, hookVars, srvVars>>

\* The response of call k ends without a done event.
ResponseEnds(k) ==
  /\ fate[k] = "streaming"
  /\ fate' = [fate EXCEPT ![k] = "ended"]
  /\ UNCHANGED <<isStreaming, conversationId, sendMessageRef, sentBy, speakRequests,
                 hookVars, srvVars>>

\* The message request of call k fails, or reading its response does.
ResponseFails(k) ==
  /\ fate[k] = "streaming"
  /\ fate' = [fate EXCEPT ![k] = "failed"]
  /\ isStreaming' = FALSE
  /\ UNCHANGED <<conversationId, sendMessageRef, sentBy, speakRequests, hookVars,
                 srvVars>>

\* A render commits and its effect stores the new sendMessage.
Render ==
  /\ sendMessageRef # [isStreaming |-> isStreaming, conversationId |-> conversationId]
  /\ sendMessageRef' = [isStreaming |-> isStreaming, conversationId |-> conversationId]
  /\ UNCHANGED <<isStreaming, conversationId, fate, sentBy, speakRequests, hookVars,
                 srvVars>>

PageInit == Init /\ hook = "record" /\ hasSynth
PageNext ==
  \/ \E text \in AutoSendTexts : handleAutoSend(text)
  \/ \E text \in InputTexts : handleSubmit(text)
  \/ \E k \in Sends : ConversationCreated(k)
  \/ \E k \in Sends, say \in BOOLEAN : ResponseDone(k, say)
  \/ \E k \in Sends : ResponseEnds(k)
  \/ \E k \in Sends : ResponseFails(k)
  \/ Render
PageSpec == PageInit /\ [][PageNext]_vars

\* ------------------------------------------------------------ properties
\* Call c produces sound.
Playing(c) == audio[c] = "playing" \/ utt[c] = "speaking"

\* Call c has a synthesis request or audio output in flight.
InFlight(c) ==
  \/ pc[c] \in {"streamFetch", "streamErrBody", "streamRead", "streamDecode",
               "restFetch", "restDecode"}
  \/ Playing(c)

\* The synthesis tier a continuation is in (0: none).
TierOf(p) ==
  CASE p \in {"streamFetch", "streamErrBody", "streamRead", "streamAborted",
              "streamDecode", "streamPlay", "streamPlayEl"} -> 1
    [] p \in {"restFetch", "restDecode", "restPlay", "restPlayEl", "restStopped"} -> 2
    [] p = "browser" -> 3
    [] OTHER -> 0

\* C1: in the record-and-submit hook a speak() call with non-blank text made
\* while speakingGuard is set changes nothing: no ref, no React state, no
\* recorder or timer, no request or playback, and no callback is invoked.
C1_SpeakWhileGuardedIsNoOp ==
  [][(hook = "record" /\ lastOp' = "speakBusy") => UNCHANGED sessionState]_vars

\* A guarded speak() was just made while a first call is still in progress.
C1_Witness ==
  /\ hook = "record" /\ lastOp = "speakBusy" /\ speakingGuard
  /\ \E c \in Calls : InFlight(c)

\* C2: at most one playback started by speak() is in flight at any time, and
\* a call that is in flight and was not cancelled holds the guard (no stale
\* continuation clears it).
C2_AtMostOnePlayback ==
  hook = "record" =>
    /\ Cardinality({c \in Calls : InFlight(c)}) <= 1
    /\ \A c \in Calls : (InFlight(c) /\ c \notin stopped) => speakingGuard

\* C3: startListening() while the session is active changes nothing: no second
\* acquisition, no buffer reset, no state change.
C3_StartWhileActiveIsNoOp ==
  [][(hook = "record" /\ lastOp' = "startListeningActive") => UNCHANGED sessionState]_vars

\* startListening() was just called again while the first acquisition is
\* still in flight.
C3_Witness ==
  /\ hook = "record" /\ lastOp = "startListeningActive" /\ isActive
  /\ \E a \in Acqs : acq[a] = "pending"

\* C4: at most one capture stream has live tracks and at most one monitor
\* loop is scheduled.
C4_OneStreamOneLoop ==
  hook = "record" => Cardinality(liveStreams) <= 1 /\ Cardinality(loops) <= 1

\* C5: a transcript flushed by stopListening() is emitted by nothing else
\* afterwards.
C5_StopFlushEmitsOnce ==
  hook = "record" =>
    \A i, j \in 1..Len(autoSent) :
      (i < j /\ autoSent[i].via = "stop") => autoSent[j].rec # autoSent[i].rec

\* C6: onAutoSend is never invoked with a text that is empty after trimming.
C6_NoBlankEmission ==
  \A i \in 1..Len(autoSent) : Trim(autoSent[i].text) # <<>>

\* Both emission paths have emitted.
C6_Witness ==
  /\ \E i \in 1..Len(autoSent) : autoSent[i].via = "timer"
  /\ \E i \in 1..Len(autoSent) : autoSent[i].via = "stop"

\* C7: a speak() call that acquired the guard and was not cancelled runs
\* resumeAfterSpeaking (and so onSpeakEnd) at most once, whichever tier ends it.
C7_ResumeOncePerSpeak ==
  (hook = "record" /\ stopCalls = 0) => \A c \in Calls : resumeCount[c] <= 1

\* C8: one speak() cancelled by one stopSpeaking() fires onSpeakEnd once.
C8_OneSpeakEndPerCancelledSpeak ==
  (/\ hook = "record"
   /\ {c \in Calls : pc[c] # "unused"} = {1}
   /\ stopped = {1} /\ stopCalls = 1 /\ blankCalls = 0)
  => onSpeakEndCalls <= 1

\* C9: after stopSpeaking() a speak() call that was in progress produces no
\* sound and attempts no further tier.
C9_StopIsFinal ==
  /\ [](hook = "record" => \A c \in stopped : ~Playing(c))
  /\ [][hook = "record" =>
          \A c \in stopped : TierOf(pc'[c]) <= TierOf(pc[c])]_vars

\* C10: while playback audio of speak() is playing the detector is paused (or
\* the session inactive) and nothing is being recorded.
C10_DetectorPausedWhilePlaying ==
  (hook = "record" /\ \E c \in Calls : Playing(c))
  => /\ energyMonitorPaused \/ ~isActive
     /\ ~isRecording

\* A step of the record-and-submit hook in which resumeAfterSpeaking runs (it
\* is the only caller of onSpeakEnd besides speak() with a blank text).
ResumeRuns ==
  hook = "record" /\ onSpeakEndCalls' # onSpeakEndCalls /\ lastOp' # "speakBlank"

\* C11: when resumeAfterSpeaking runs while the session is active it leaves
\* the detector re-armed (pause flag cleared, no utterance in progress), and
\* in a re-armed detector the next above-threshold frame produces speechStart
\* and a recording of the capture stream runs.
C11_ResumeReArmsDetector ==
  /\ [][(ResumeRuns /\ isActive)
          => (~energyMonitorPaused' /\ ~isSpeechActive')]_vars
  /\ [][\A l \in Acqs :
          (Frame(l, TRUE) /\ isActive /\ ~energyMonitorPaused /\ ~isSpeechActive)
            => /\ lastOp' = "speechStart" /\ isSpeechActive' /\ userSpeaking'
               /\ mediaStream # 0 => isRecording']_vars

\* A speak() call ran resumeAfterSpeaking in an active session and the next
\* loud frame started an utterance and its recording.
C11_Witness ==
  /\ hook = "record" /\ isActive /\ lastOp = "speechStart" /\ isRecording
  /\ \E c \in Calls : resumeCount[c] > 0
  /\ mediaRecorder # 0 /\ recState[mediaRecorder] = "recording"

\* C12: stopListening() called in any state leaves the session idle: flags
\* cleared, tracked timers cleared, no monitor loop scheduled, no recording in
\* progress, and the capture stream released (no stream with live tracks, the
\* reference null).
C12_StopListeningReleases ==
  (hook = "record" /\ lastOp = "stopListening") =>
    /\ ~isActive /\ ~isListening /\ ~userSpeaking
    /\ ~speechEndTimer /\ ~silenceTimer
    /\ loops = {} /\ animFrame = 0
    /\ ~isRecording /\ \A r \in Recs : recState[r] # "recording"
    /\ liveStreams = {} /\ mediaStream = 0

\* C13: stopListening() is idempotent, in both hooks: a stopListening() made
\* directly after a stopListening() changes no state, releases nothing again
\* and invokes no callback.
C13_StopListeningIdempotent ==
  [][(lastOp = "stopListening" /\ lastOp' = "stopListening")
       => UNCHANGED sessionState]_vars

\* stopListening() has just stopped a session that held a stream and a
\* transcript: it released the stream and flushed the text.
C13_Witness ==
  /\ lastOp = "stopListening" /\ ~isActive
  /\ autoSent # <<>> /\ autoSent[Len(autoSent)].via = "stop"
  /\ accumulatedText = <<>>
  /\ hook = "record" => (closedCtx # {} /\ liveStreams = {} /\ mediaStream = 0)

\* Recorder r was made in a session that stopListening() has ended since.
StaleRecording(r) == ~isActive \/ recStream[r] # mediaStream

\* C14: a transcription response or an auto-send timer of a recording made
\* before stopListening() changes neither accumulatedText, hasSpeech nor
\* transcript and invokes no onAutoSend.
C14_StaleContinuationsGated ==
  [][\A r \in Recs :
       (/\ hook = "record" /\ StaleRecording(r)
        /\ \/ \E res \in Transcripts \cup {Null} : SttResponse(r, res)
           \/ AutoSendTimer(r))
       => UNCHANGED <<accumulatedText, hasSpeech, transcript, autoSent>>]_vars

\* C15: the synthesis tiers of a speak() call are tried strictly in order.  A
\* call enters the streaming tier first; it enters the next tier only in the
\* step in which the tier before it reports failure, with no audio of the
\* call playing and nothing shown to the caller (no state change, no
\* callback); a call whose tier reported success (resumeAfterSpeaking ran for
\* it) never enters another tier; a finished call stays finished.
C15_TiersInOrder ==
  [][hook = "record" =>
       \A c \in Calls :
         /\ TierOf(pc'[c]) # TierOf(pc[c]) =>
              \/ pc[c] = "unused" /\ TierOf(pc'[c]) = 1
              \/ /\ TierOf(pc[c]) \in {1, 2}
                 /\ TierOf(pc'[c]) = TierOf(pc[c]) + 1
                 /\ resumeCount[c] = 0
                 /\ audio'[c] # "playing"
                 /\ UNCHANGED <<uiVars, onSpeakEndCalls, resumeCount, autoSent>>
              \/ pc'[c] = "done"
         /\ pc[c] = "done" => pc'[c] = "done"]_vars

\* A call went through the streaming and the single-shot tier, was spoken by
\* platform synthesis and has finished.
C15_Witness ==
  /\ hook = "record"
  /\ \E c \in Calls : pc[c] = "browser" /\ utt[c] = "over" /\ resumeCount[c] = 1

C17_ShortBurstIsMisfire ==
  [][(hook = "record" /\ lastOp' = "speechEnd")
       => speechSpan >= MinSpeechTicks]_vars

\* C18: in the energy-based detector an utterance that was started is ended
\* by exactly one speechEnd or misfire before the next speechStart, whatever
\* speak(), stopSpeaking() and resume do in between: speechStart is reported
\* only when no utterance is in progress, speechEnd and misfire only when one
\* is, and an utterance in progress stops being so only in a step that
\* reports speechEnd or misfire (stopListening and startListening, which end
\* and begin a session, aside).
C18_StartEndPaired ==
  [][hook = "record" =>
       /\ lastOp' = "speechStart" => (~isSpeechActive /\ isSpeechActive')
       /\ lastOp' \in {"speechEnd", "misfire"} => (isSpeechActive /\ ~isSpeechActive')
       /\ (isSpeechActive /\ ~isSpeechActive'
           /\ lastOp' \notin {"stopListening", "startListening"})
          => lastOp' \in {"speechEnd", "misfire"}]_vars

\* C19: while the energy-based detector is paused or the session is inactive,
\* a frame of any energy reports no speechStart, speechEnd or misfire, starts
\* and stops no recording, and leaves the utterance flag and the timestamps
\* as they are.
C19_PausedDetectorEmitsNothing ==
  [][\A l \in Acqs, loud \in BOOLEAN :
       (hook = "record" /\ (~isActive \/ energyMonitorPaused) /\ Frame(l, loud))
       => /\ lastOp' \notin {"speechStart", "speechEnd", "misfire"}
          /\ UNCHANGED <<isSpeechActive, userSpeaking, sinceSpeechStart,
                         sinceLastSpeech, speechSpan, isRecording,
                         mediaRecorder, recState, audioChunks>>]_vars

\* A frame has just been skipped by the detector of an active session that
\* is paused for a playback.
C19_Witness ==
  /\ hook = "record" /\ lastOp = "frameSkipped"
  /\ isActive /\ energyMonitorPaused /\ mediaStream \in liveStreams
  /\ \E c \in Calls : InFlight(c)

\* C20: in the continuous-recognizer hook the text passed to onAutoSend is
\* the (trimmed) concatenation, in arrival order, of all final fragments
\* handled since the last emission or since startListening, also when the
\* recognizer ended and was restarted in between.
C20_EmitsAllFinals ==
  [][(hook = "continuous" /\ Len(autoSent') > Len(autoSent))
       => autoSent'[Len(autoSent')].text = Trim(finalsSince)]_vars

\* A step in which a timer (not stopListening's flush) invokes onAutoSend.
TimerEmits ==
  Len(autoSent') > Len(autoSent) /\ autoSent'[Len(autoSent')].via # "stop"

\* C21: in the continuous-recognizer hook an auto-send never fires earlier
\* than the full silence timeout after the most recent fragment, also when the
\* detector has reported speechEnd: the silence timer, which every fragment
\* re-arms, is either the timer that emits or has run out (is not pending)
\* when a timer emits.
C21_NoEarlyAutoSend ==
  [][(hook = "continuous" /\ TimerEmits)
       => (autoSent'[Len(autoSent')].via = "silence" \/ ~silenceTimer)]_vars

\* C22: at most one timer that will perform an auto-send is pending: the
\* silence timer and the speech-end timer are never pending together, and no
\* two post-transcription auto-send timers are.
C22_OnePendingAutoSendTimer ==
  /\ ~(silenceTimer /\ speechEndTimer)
  /\ Cardinality({r \in Recs : recState[r] = "timer"}) <= 1

\* C23: accumulatedText is empty whenever the session is idle (isActive
\* false) and whenever it is speaking.
C23_TextOnlyWhileListening ==
  (~isActive \/ isSpeaking) => accumulatedText = <<>>

\* C24: on every emission path, hasSpeech is true immediately before
\* onAutoSend is invoked.
C24_EmissionNeedsSpeech ==
  [][Len(autoSent') > Len(autoSent) => hasSpeech]_vars

\* C25: when the device acquisition of startListening() fails, the session
\* ends idle: isActive and isListening false, no capture stream held, no
\* detector loop scheduled.
C25_FailedAcquisitionEndsIdle ==
  [][\A a \in Acqs :
       (hook = "record" /\ AcquireFail(a))
       => (~isActive' /\ ~isListening' /\ mediaStream' = 0 /\ loops' = {})]_vars

\* C30: after a detector reports speechStart, no timer that was pending at
\* that moment performs an auto-send: the step that directly follows a
\* speechStart invokes onAutoSend only if it is stopListening's flush.
C30_SpeechStartCancelsAutoSend ==
  [][(lastOp = "speechStart" /\ Len(autoSent') > Len(autoSent))
       => autoSent'[Len(autoSent')].via = "stop"]_vars

\* C26: in the record-and-submit hook a failed transcription of a clip (any
\* failure makes sendAudioToSTT return null) is an empty turn: the step
\* changes neither accumulatedText, hasSpeech nor transcript, invokes neither
\* onResult nor onAutoSend, sets no auto-send timer for the clip, and leaves
\* the detector as it is (armed if it was armed).
C26_FailedTranscriptionIsEmptyTurn ==
  [][\A r \in Recs :
       (hook = "record" /\ SttResponse(r, Null))
       => /\ UNCHANGED <<accumulatedText, hasSpeech, transcript, lastResult,
                         autoSent, timerText>>
          /\ recState'[r] = "done"
          /\ UNCHANGED <<isActive, energyMonitorPaused, isSpeechActive, loops,
                         animFrame, mediaStream, liveStreams, isRecording>>]_vars

\* The transcription of a second clip has just failed in an active session
\* whose detector is armed and whose buffer holds the first clip's text.
C26_Witness ==
  /\ hook = "record" /\ lastOp = "sttFailed"
  /\ isActive /\ ~energyMonitorPaused /\ animFrame \in loops
  /\ Truthy(accumulatedText) /\ hasSpeech

\* C29: every onAutoSend emission is preceded by an onResult invocation for
\* the same recognized text (onAutoSend receives it trimmed).  A text emitted
\* by stopListening's flush or by a timer of the continuous-recognizer hook
\* is the text of the most recent onResult invocation; a text emitted by a
\* post-transcription timer is the argument the timer holds, which was the
\* text of the most recent onResult invocation when the timer was set and
\* has not changed since.
C29_ResultBeforeAutoSend ==
  [][/\ \A r \in Recs :
          /\ (recState[r] # "timer" /\ recState'[r] = "timer")
               => timerText'[r] = lastResult'
          /\ (recState[r] = "timer" /\ recState'[r] = "timer")
               => timerText'[r] = timerText[r]
     /\ Len(autoSent') > Len(autoSent) =>
          LET e == autoSent'[Len(autoSent')] IN
          IF e.via = "timer"
          THEN recState[e.rec] = "timer" /\ e.text = Trim(timerText[e.rec])
          ELSE e.text = Trim(lastResult)]_vars

\* A text was emitted by a post-transcription timer and by no other path;
\* its onResult invocation carried it with the surrounding blanks that the
\* emission trims.
C29_Witness ==
  /\ autoSent # <<>> /\ autoSent[Len(autoSent)].via = "timer"
  /\ Trim(lastResult) = autoSent[Len(autoSent)].text
  /\ lastResult # Trim(lastResult)

\* C28: when a device acquisition completes after stopListening() or the
\* unmount cleanup ended its session (and no startListening() followed, so
\* isActive is false), its stream is released, no stream reference is kept,
\* no detector loop and no recognizer is started and no detector installed;
\* vadReady, which stopListening() cleared, is not set while the session is
\* inactive.
C28_LateAcquisitionReleased ==
  /\ [][\A a \in Acqs :
          (~isActive /\ (AcquireOk(a) \/ \E ok \in BOOLEAN : VadLoaded(a, ok)))
          => /\ a \notin liveStreams' /\ mediaStream' = 0
             /\ a \in closedCtx' \/ hook = "continuous"
             /\ UNCHANGED <<loops, animFrame, vadRef, recog, recognitionRef,
                            vadReady, isActive, isListening>>
             /\ vadState'[a] # "running"]_vars
  /\ [][(lastOp' = "stopListening" => ~vadReady')
        /\ ((~isActive /\ ~isActive' /\ ~vadReady) => ~vadReady')]_vars

\* The component was unmounted while getUserMedia was pending; the
\* acquisition has completed since and its stream and context were released.
C28_Witness ==
  /\ hook = "record" /\ ~mounted /\ ~isActive /\ ~vadReady
  /\ \E a \in Acqs : acq[a] = "done" /\ analyserCtx = a /\ a \in closedCtx
  /\ mediaStream = 0 /\ liveStreams = {} /\ loops = {}

\* C27: in the record-and-submit hook every speak() call that sets
\* speakingGuard is eventually followed by the guard being cleared and
\* isSpeaking being false (isSpeaking is state of the mounted component: the
\* unmount cleanup clears the guard and ends the component), provided every
\* started request and playback settles.
C27_GuardEventuallyCleared ==
  speakingGuard ~> (~speakingGuard /\ (~isSpeaking \/ ~mounted))

\* A speak() call went through all three tiers and was ended by platform
\* synthesis, which cleared the guard, with no stopSpeaking() involved.
C27_Witness ==
  /\ hook = "record" /\ mounted /\ stopCalls = 0
  /\ ~speakingGuard /\ ~isSpeaking
  /\ \E c \in Calls : pc[c] = "browser" /\ resumeCount[c] = 1

\* C32: starting playback neither empties nor emits the buffer, in both
\* hooks: a speak() call that starts playback (prepareForSpeaking in the
\* record-and-submit hook, the pause and stopRecognition of the other)
\* leaves accumulatedText and hasSpeech as they are and invokes no
\* onAutoSend, and so does every step that resumes listening after playback
\* (the steps that invoke onSpeakEnd).
C32_PlaybackLeavesBuffer ==
  [][(lastOp' = "speak" \/ onSpeakEndCalls' > onSpeakEndCalls)
       => UNCHANGED <<accumulatedText, hasSpeech, autoSent>>]_vars

\* speak() has just started playback while a transcript was buffered: the
\* detector is paused and the transcript is still in the buffer.
C32_Witness ==
  /\ lastOp = "speak" /\ speakingGuard /\ energyMonitorPaused /\ isActive
  /\ Trim(accumulatedText) = <<"a">> /\ hasSpeech /\ autoSent = <<>>

\* C33: in the record-and-submit hook a transcription request in flight does
\* not block the detector: whenever a clip's request has not returned and
\* the detector is armed and idle after speechEnd (session active, not
\* paused, no utterance and no recording in progress, the loop running on a
\* live stream), the next loud frame reports speechStart and starts a new
\* recording, the request still pending.
C33_PendingSttLeavesDetectorArmed ==
  \A r \in Recs :
    (/\ hook = "record" /\ recState[r] = "stt"
     /\ isActive /\ ~energyMonitorPaused /\ ~isSpeechActive /\ ~isRecording
     /\ mediaStream # 0 /\ mediaStream \in loops
     /\ mediaStream \in liveStreams /\ mediaStream \notin closedCtx
     /\ Used < MaxOps)
    => ENABLED (/\ Frame(mediaStream, TRUE)
                /\ lastOp' = "speechStart"
                /\ isRecording' /\ mediaRecorder' # mediaRecorder
                /\ recState'[mediaRecorder'] = "recording"
                /\ recState'[r] = "stt")

\* A second recording is in progress while the first clip's transcription
\* request has not returned.
C33_Witness ==
  /\ hook = "record" /\ isActive /\ isSpeechActive /\ isRecording
  /\ \E r \in Recs : recState[r] = "stt" /\ mediaRecorder # r
                      /\ mediaRecorder # 0 /\ recState[mediaRecorder] = "recording"

\* C34: in the record-and-submit hook the clip built when a recorder stops
\* (the chunk list at the moment onstop sends it for transcription) holds
\* exactly that recorder's own chunk and no chunk of another recorder.
C34_ClipHoldsOwnChunks ==
  [][\A r \in Recs :
       (recState[r] = "stopping" /\ recState'[r] = "stt") => audioChunks' = <<r>>]_vars

\* C35: in the continuous-recognizer hook at most one recognizer is running,
\* a running recognizer is the one recognitionRef holds, and none is running
\* while an utterance of speak() is being spoken or while the session is
\* inactive.
C35_OneRecognizer ==
  hook = "continuous" =>
    /\ Cardinality({r \in Recs : recog[r] = "running"}) <= 1
    /\ \A r \in Recs : recog[r] = "running" => recognitionRef = r
    /\ (\E c \in Calls : utt[c] = "speaking") => \A r \in Recs : recog[r] # "running"
    /\ ~isActive => \A r \in Recs : recog[r] # "running"

\* C36: in both hooks a non-empty accumulatedText implies that hasSpeech is
\* set.
C36_TextImpliesSpeech == accumulatedText # <<>> => hasSpeech

\* A transcript is buffered, with hasSpeech set, after an earlier one was
\* emitted and the two were cleared.
C36_Witness == accumulatedText # <<>> /\ hasSpeech /\ autoSent # <<>>

\* C37: in the record-and-submit hook a streaming tier whose controller was
\* aborted by stopSpeaking() or by the unmount cleanup reports success: from
\* the abort on, the call's continuation only ends (speak() takes its
\* success branch) and enters neither the single-shot tier nor platform
\* synthesis.
C37_AbortedStreamIsSuccess ==
  [][hook = "record" =>
       \A c \in Calls :
         (\/ c = streamAbort /\ lastOp' \in {"stopSpeaking", "unmount"}
          \/ pc[c] = "streamAborted")
         => pc'[c] \in {"streamAborted", "done"}]_vars

\* The streaming tier of call c reports failure: speak() goes on to the
\* single-shot tier.
StreamTierFails(c) == TierOf(pc[c]) = 1 /\ TierOf(pc'[c]) = 2

\* C38 as the spec states it: the streaming tier reports failure exactly
\* when the response is non-2xx or has no body, the stream carried an error
\* event, or the stream ended with no audio event.
C38_FailureExactlyOnBadResponse ==
  [][hook = "record" =>
       \A c \in Calls :
         StreamTierFails(c) <=>
           \/ StreamErrorBody(c)
           \/ StreamResponse(c, FALSE)
           \/ \E n \in 0..MaxChunks : StreamEnd(c, n, "error")
           \/ \E e \in StreamEndings : StreamEnd(c, 0, e)]_vars

\* C38: the streaming tier reports failure exactly when the request failed
\* (non-2xx, no body or a network error of the fetch or of a read), the
\* stream carried an error event, the stream ended with no audio event, or
\* the audio could be played neither as a decoded buffer nor by an audio
\* element; in the step that handles a stream with an error event no audio
\* of the call plays, whatever was received before it.
C38_StreamFailureConditions ==
  [][hook = "record" =>
       \A c \in Calls :
         /\ StreamTierFails(c) <=>
               \/ StreamErrorBody(c)
               \/ StreamResponse(c, FALSE)
               \/ \E n \in 0..MaxChunks : StreamEnd(c, n, "error")
               \/ \E e \in StreamEndings : StreamEnd(c, 0, e)
               \/ \E n \in 0..MaxChunks : StreamEnd(c, n, "broken")
               \/ StreamDecoded(c, "failed")
               \/ StreamElementEnded(c, FALSE)
         /\ (\E n \in 0..MaxChunks : StreamEnd(c, n, "error"))
               => pc'[c] = "restFetch" /\ audio'[c] # "playing"]_vars

\* A stream delivered audio and then an error event: the call is in the
\* single-shot tier and none of its audio plays.
C38_Witness ==
  /\ hook = "record" /\ lastOp = "streamErrorAfterAudio"
  /\ \E c \in Calls : pc[c] = "restFetch" /\ audio[c] = "none"

\* C31: in the continuous-recognizer hook, when a recognizer terminates
\* while isActive is true exactly one new recognizer is started, with the
\* language the option has at that moment, and recognitionRef holds it; when
\* one terminates while isActive is false no recognizer is started.
C31_RestartOnEnd ==
  [][\A r \in Recs :
       (hook = "continuous" /\ recog[r] \in {"running", "aborted"} /\ recog'[r] = "ended")
       => LET started == {q \in Recs : recog[q] = "unused" /\ recog'[q] = "running"} IN
          IF isActive
          THEN /\ Cardinality(started) = 1
               /\ \A q \in started : recLang'[q] = language /\ recognitionRef' = q
          ELSE started = {}]_vars

\* A recognizer started in one language ended after the option had changed,
\* and the one started in its place has the new language.
C31_Witness ==
  /\ hook = "continuous" /\ isActive /\ langChanges = 1
  /\ \E r, q \in Recs :
       /\ recog[r] = "ended" /\ recLang[r] = "hi-IN"
       /\ recog[q] = "running" /\ recLang[q] = "en-IN" /\ recognitionRef = q
       /\ \A p \in Recs \ {r, q} : recog[p] = "unused"
  /\ langTimers = 1

\* C39: for every ordering of the upstream socket's events, the 30 s timeout
\* and the client's disconnect, the /api/tts-stream handler ends the
\* response at most once, writes the done event at most once, and writes
\* nothing to the response after it has ended it.
DoneWrites == Cardinality({i \in 1..Len(sse) : sse[i] = "done"})
C39_ResponseEndedOnce ==
  /\ endCalls <= 1
  /\ DoneWrites <= 1
  /\ lateWrites = 0

\* C40: every utterance the hook emits through onAutoSend is forwarded to
\* the conversational responder: none is dropped because a previous
\* response is still streaming.
C40_EveryUtteranceForwarded ==
  \A k \in Sends : sentBy[k] = "autoSend" => fate[k] # "dropped"

====
